---- MODULE Spec2Model ----
(***************************************************************************)
(* Document-driven quiz generation and answer verification of the          *)
(* placement predictor (src/predictor/views.py, src/predictor/models.py).  *)
(*                                                                         *)
(* A Python str is modelled as a sequence of one-character strings, so     *)
(* that strip, lower, split, translate and the substring test are computed *)
(* the way the interpreter computes them.                                  *)
(***************************************************************************)
EXTENDS Integers, Sequences, FiniteSets, TLC

\* ------------------------------------------------------------------ bounds

\* Longest submitted answer, in blank-separated tokens, that the verifier is
\* given.
MaxAnswerWords == 2

\* Largest number of questions asked of a generator. views.py:171 and
\* views.py:288 default max_questions to 25, the only value the upload and
\* the retake use; the model scales it down to this bound.
MaxQuestions == 2

\* Longest extracted text, in sentences of the pool.
MaxSentences == 2

\* Most requests made on a quiz, its upload among them.
MaxRequests == 3

\* Most questions of a quiz that is graded question by question.
MaxGraded == 3

\* Most questions of a graded quiz whose results are computed.
MaxReviewed == 10

\* ------------------------------------------------------- program constants

\* views.py:616-617, len(w) > 2
FILL_BLANK_MIN_WORD == 2
\* A faulty variant: FILL_BLANK_RATIO that no overlap reaches
RatioOutOfReach == 100 + 1
\* views.py:636, match_ratio >= 0.8, in percent
FILL_BLANK_RATIO == 80
\* views.py:681-682, len(word) > 3
KEYWORD_MIN_LEN == 3
\* views.py:690, match_ratio >= 0.4, in percent
KEYWORD_RATIO == 40
\* views.py:685, len(student_answer) > 10
LENGTH_CHECK == 10
\* views.py:301, len(s) < 30
MIN_SENTENCE_LEN == 30
\* views.py:303, s.count(' ') < 3
MIN_SPACES == 3
\* views.py:321, s[:200]
MCQ_EXCERPT == 200
\* views.py:325, s[:150]
TRUE_FALSE_EXCERPT == 150
\* views.py:328, s[:120]
SHORT_EXCERPT == 120
\* views.py:329, s[:200]
SHORT_ANSWER_LEN == 200
\* views.py:383, len(words) < 6
FILL_MIN_WORDS == 6
\* views.py:391, len(clean_word) > 5
FILL_MIN_CLEAN == 5
\* views.py:405-406, question_text[:200]
FILL_MAX_LEN == 200
\* views.py:458, syllabus_text[:50000]
EXTRACTED_TEXT_LIMIT == 50000

\* --------------------------------------------------------------- str model

Min(S) == CHOOSE x \in S : \A y \in S : x <= y
Max(S) == CHOOSE x \in S : \A y \in S : x >= y
Range(s) == {s[i] : i \in 1..Len(s)}

\* str.strip() and str.split() with no argument work on these.
Whitespace == {" ", "\t", "\n", "\r"}

\* string.punctuation, but for the backquote, which no TLA+ string can hold
\* (no answer of the model contains one)
Punctuation ==
    {"!", "\"", "#", "$", "%", "&", "'", "(", ")", "*", "+", ",", "-", ".",
     "/", ":", ";", "<", "=", ">", "?", "@", "[", "\\", "]", "^", "_", "{",
     "|", "}", "~"}

UpperCase ==
    <<"A", "B", "C", "D", "E", "F", "G", "H", "I", "J", "K", "L", "M",
      "N", "O", "P", "Q", "R", "S", "T", "U", "V", "W", "X", "Y", "Z">>
LowerCase ==
    <<"a", "b", "c", "d", "e", "f", "g", "h", "i", "j", "k", "l", "m",
      "n", "o", "p", "q", "r", "s", "t", "u", "v", "w", "x", "y", "z">>

ToLower ==
    [c \in Range(UpperCase) |-> LowerCase[CHOOSE i \in 1..26 : UpperCase[i] = c]]

lower_char(c) == IF c \in DOMAIN ToLower THEN ToLower[c] ELSE c

\* str.lower()
lower(s) == [i \in 1..Len(s) |-> lower_char(s[i])]

\* str.strip()
strip(s) ==
    IF \A i \in 1..Len(s) : s[i] \in Whitespace THEN <<>>
    ELSE SubSeq(s,
                CHOOSE i \in 1..Len(s) :
                    s[i] \notin Whitespace /\ \A k \in 1..(i - 1) : s[k] \in Whitespace,
                CHOOSE i \in 1..Len(s) :
                    s[i] \notin Whitespace
                        /\ \A k \in (i + 1)..Len(s) : s[k] \in Whitespace)

\* The last character of the word that starts at i
word_end(s, i) ==
    CHOOSE e \in i..Len(s) :
        /\ e = Len(s) \/ s[e + 1] \in Whitespace
        /\ \A k \in i..e : s[k] \notin Whitespace

RECURSIVE split_from(_, _)
split_from(s, i) ==
    IF i > Len(s) THEN <<>>
    ELSE IF s[i] \in Whitespace THEN split_from(s, i + 1)
    ELSE <<SubSeq(s, i, word_end(s, i))>> \o split_from(s, word_end(s, i) + 1)

\* str.split(): the maximal runs of non-whitespace characters
split(s) == split_from(s, 1)

\* sub in s
contains(sub, s) ==
    \E i \in 0..(Len(s) - Len(sub)) : SubSeq(s, i + 1, i + Len(sub)) = sub

RECURSIVE join(_, _)
\* sep.join(words)
join(sep, words) ==
    IF Len(words) = 0 THEN <<>>
    ELSE IF Len(words) = 1 THEN words[1]
    ELSE words[1] \o sep \o join(sep, Tail(words))

\* s.translate(str.maketrans('', '', string.punctuation))
translate(s) == SelectSeq(s, LAMBDA c : c \notin Punctuation)

\* f"{x:.0f}" of the ratio n/d: rounded to the nearest integer, ties to even
format_0f(n, d) ==
    LET q == n \div d
        r == n % d
    IN IF 2 * r < d THEN q
       ELSE IF 2 * r > d THEN q + 1
       ELSE IF q % 2 = 0 THEN q ELSE q + 1

\* -------------------------------------------------- Python values in JSON

\* The booleans of Python, and the marker of a key a dict does not hold.
PyTrue == "True"
PyFalse == "False"
Missing == "<missing>"
\* None, as json.loads decodes a JSON null
JsonNull == "None"
PyBool(b) == IF b THEN PyTrue ELSE PyFalse

\* dict.get(key, default) on a record that holds Missing for an absent key
get(value, default) == IF value = Missing THEN default ELSE value

\* --------------------------------------------------------- answer verifier

\* What one call of verify_answer_with_content returns, (is_correct, reason),
\* with the number of generate_content calls it issued. pct is the number a
\* formatted reason carries, -1 in a reason that carries none.
Outcome(is_correct, reason, pct, calls) ==
    [is_correct |-> is_correct, reason |-> reason, pct |-> pct, calls |-> calls]

\* How the semantic-verification service can behave on one call: the call
\* raises; the text is no JSON; the JSON is no object; or it is an object
\* with these keys, whose values the service chooses.
VerifyResponses ==
    { [kind |-> "raise", correct |-> Missing, is_correct |-> Missing,
       reason |-> Missing, reasoning |-> Missing],
      [kind |-> "not_json", correct |-> Missing, is_correct |-> Missing,
       reason |-> Missing, reasoning |-> Missing],
      [kind |-> "not_object", correct |-> Missing, is_correct |-> Missing,
       reason |-> Missing, reasoning |-> Missing],
      [kind |-> "object", correct |-> PyTrue, is_correct |-> Missing,
       reason |-> "meaning matches", reasoning |-> Missing],
      [kind |-> "object", correct |-> PyFalse, is_correct |-> Missing,
       reason |-> "meaning differs", reasoning |-> Missing],
      [kind |-> "object", correct |-> Missing, is_correct |-> PyTrue,
       reason |-> Missing, reasoning |-> "alternate keys"],
      [kind |-> "object", correct |-> "'yes'", is_correct |-> Missing,
       reason |-> Missing, reasoning |-> Missing],
      [kind |-> "object", correct |-> JsonNull, is_correct |-> PyTrue,
       reason |-> Missing, reasoning |-> Missing],
      [kind |-> "object", correct |-> Missing, is_correct |-> Missing,
       reason |-> Missing, reasoning |-> Missing] }

\* A faulty variant: is_blank without the test for whitespace only
NoBlankCheck(student_answer) == student_answer = <<>>

\* views.py:581
is_blank(student_answer) ==
    student_answer = <<>> \/ strip(student_answer) = <<>>

\* A faulty variant: mcq_match comparing without regard to case
McqIgnoringCase(student_answer, correct_answer) ==
    lower(student_answer) = lower(correct_answer)

\* views.py:590
mcq_match(student_answer, correct_answer) ==
    student_answer = correct_answer

\* A faulty variant: true_false_match comparing case for case
TrueFalseExact(student_answer, correct_answer) ==
    student_answer = correct_answer

\* views.py:594
true_false_match(student_answer, correct_answer) ==
    lower(student_answer) = lower(correct_answer)

\* A faulty variant: normalize leaving the punctuation in
NormalizeKeepingPunctuation(s) == strip(lower(s))

\* views.py:600-607
normalize(s) == strip(translate(lower(s)))

\* A faulty variant: fill_blank_tier without the substring check of views.py:624
FillBlankNoContainment(correct_normalized, answer_normalized) ==
    LET correct_words ==
            SelectSeq(split(correct_normalized),
                      LAMBDA w : Len(w) > FILL_BLANK_MIN_WORD)
        answer_words ==
            SelectSeq(split(answer_normalized),
                      LAMBDA w : Len(w) > FILL_BLANK_MIN_WORD)
        common_words == Range(correct_words) \cap Range(answer_words)
        total == Cardinality(Range(correct_words))
    IN IF Len(correct_words) = 0
       THEN <<Outcome(PyBool(correct_normalized = answer_normalized),
                      "Exact match required", -1, 0)>>
       ELSE IF total > 0
               /\ 100 * Cardinality(common_words) >= FILL_BLANK_RATIO * total
               /\ Cardinality(common_words) > 0
       THEN <<Outcome(PyTrue, "High similarity",
                      format_0f(100 * Cardinality(common_words), total), 0)>>
       ELSE IF Cardinality(common_words) = 0
       THEN <<Outcome(PyFalse, "Answer does not match expected response", -1, 0)>>
       ELSE <<>>

\* A faulty variant: fill_blank_tier without the return of views.py:641-642
FillBlankNoShortCircuit(correct_normalized, answer_normalized) ==
    LET correct_words ==
            SelectSeq(split(correct_normalized),
                      LAMBDA w : Len(w) > FILL_BLANK_MIN_WORD)
        answer_words ==
            SelectSeq(split(answer_normalized),
                      LAMBDA w : Len(w) > FILL_BLANK_MIN_WORD)
        common_words == Range(correct_words) \cap Range(answer_words)
        total == Cardinality(Range(correct_words))
    IN IF Len(correct_words) = 0
       THEN <<Outcome(PyBool(correct_normalized = answer_normalized),
                      "Exact match required", -1, 0)>>
       ELSE IF contains(correct_normalized, answer_normalized)
               \/ contains(answer_normalized, correct_normalized)
       THEN <<Outcome(PyTrue, "Answer contains expected response", -1, 0)>>
       ELSE IF total > 0
               /\ 100 * Cardinality(common_words) >= FILL_BLANK_RATIO * total
               /\ Cardinality(common_words) > 0
       THEN <<Outcome(PyTrue, "High similarity",
                      format_0f(100 * Cardinality(common_words), total), 0)>>
       ELSE <<>>

\* views.py:614-642, entered with the normalized answers unequal: the
\* outcome, or the empty sequence when the tier leaves the answer undecided.
fill_blank_tier(correct_normalized, answer_normalized) ==
    LET correct_words ==
            SelectSeq(split(correct_normalized),
                      LAMBDA w : Len(w) > FILL_BLANK_MIN_WORD)
        answer_words ==
            SelectSeq(split(answer_normalized),
                      LAMBDA w : Len(w) > FILL_BLANK_MIN_WORD)
        common_words == Range(correct_words) \cap Range(answer_words)
        total == Cardinality(Range(correct_words))
    IN IF Len(correct_words) = 0
       THEN <<Outcome(PyBool(correct_normalized = answer_normalized),
                      "Exact match required", -1, 0)>>
       ELSE IF contains(correct_normalized, answer_normalized)
               \/ contains(answer_normalized, correct_normalized)
       THEN <<Outcome(PyTrue, "Answer contains expected response", -1, 0)>>
       ELSE IF total > 0
               /\ 100 * Cardinality(common_words) >= FILL_BLANK_RATIO * total
               /\ Cardinality(common_words) > 0
       THEN <<Outcome(PyTrue, "High similarity",
                      format_0f(100 * Cardinality(common_words), total), 0)>>
       ELSE IF Cardinality(common_words) = 0
       THEN <<Outcome(PyFalse, "Answer does not match expected response", -1, 0)>>
       ELSE <<>>

\* A faulty variant: ai_available without the test of pdf_content
AiWithoutContent(gemini, pdf_content) == gemini

\* views.py:645. GEMINI_API_KEY is set exactly when genai is (views.py:19-26).
ai_available(gemini, pdf_content) == gemini /\ pdf_content # <<>>

\* views.py:669-677, one generate_content call: the verdict returned at line
\* 673, or the empty sequence when the try block raised (the call itself,
\* json.loads, or .get on a value that is no dict).
ai_verdict(response) ==
    IF response.kind = "object"
    THEN <<Outcome(get(response.correct, get(response.is_correct, PyFalse)),
                   get(response.reason, get(response.reasoning, "AI verification")),
                   -1, 1)>>
    ELSE <<>>

\* views.py:681-682
keywords(answer) ==
    {lower(word) : word \in {w \in Range(split(answer)) : Len(w) > KEYWORD_MIN_LEN}}

\* A faulty variant: keyword_fallback with the threshold of the fill-in-blank tier
KeywordFallbackStrict(correct_answer, student_answer, calls) ==
    LET correct_keywords == keywords(correct_answer)
        common_keywords == correct_keywords \cap keywords(student_answer)
        total == Cardinality(correct_keywords)
        pct == format_0f(100 * Cardinality(common_keywords), total)
    IN IF correct_keywords = {}
       THEN Outcome(PyBool(Len(student_answer) > LENGTH_CHECK), "Length check", -1, calls)
       ELSE IF 100 * Cardinality(common_keywords) >= FILL_BLANK_RATIO * total
       THEN Outcome(PyTrue, "Match", pct, calls)
       ELSE Outcome(PyFalse, "Low match", pct, calls)

\* views.py:680-693
keyword_fallback(correct_answer, student_answer, calls) ==
    LET correct_keywords == keywords(correct_answer)
        common_keywords == correct_keywords \cap keywords(student_answer)
        total == Cardinality(correct_keywords)
        pct == format_0f(100 * Cardinality(common_keywords), total)
    IN IF correct_keywords = {}
       THEN Outcome(PyBool(Len(student_answer) > LENGTH_CHECK), "Length check", -1, calls)
       ELSE IF 100 * Cardinality(common_keywords) >= KEYWORD_RATIO * total
       THEN Outcome(PyTrue, "Match", pct, calls)
       ELSE Outcome(PyFalse, "Low match", pct, calls)

\* A faulty variant: default_matching looking for the first expected word only
DefaultMatchingFirstWord(correct_answer, student_answer, calls) ==
    Outcome(PyBool(\E w \in {split(correct_answer)[i] : i \in {1} \cap DOMAIN split(correct_answer)} :
                       contains(lower(w), lower(student_answer))),
            "Default matching", -1, calls)

\* views.py:696
default_matching(correct_answer, student_answer, calls) ==
    Outcome(PyBool(contains(lower(correct_answer), lower(student_answer))),
            "Default matching", -1, calls)

\* views.py:576-696. gemini is the module's genai, response what the service
\* does if it is called. question.question_text only feeds the prompt.
verify_answer_with_content(question, answer, pdf_content, gemini, response) ==
    IF is_blank(answer) THEN Outcome(PyFalse, "No answer provided", -1, 0)
    ELSE
    LET student_answer == strip(answer)
        correct_answer == strip(question.correct_answer)
        correct_normalized == normalize(correct_answer)
        answer_normalized == normalize(student_answer)
        filled == IF question.question_type = "fill_blank"
                  THEN fill_blank_tier(correct_normalized, answer_normalized)
                  ELSE <<>>
        calls == IF ai_available(gemini, pdf_content) THEN 1 ELSE 0
        verdict == IF calls = 1 THEN ai_verdict(response) ELSE <<>>
    IN IF question.question_type = "mcq"
       THEN Outcome(PyBool(mcq_match(student_answer, correct_answer)),
                    "Exact match required for MCQ", -1, 0)
       ELSE IF question.question_type \in {"true_false", "tf"}
       THEN Outcome(PyBool(true_false_match(student_answer, correct_answer)),
                    "Exact match required for True/False", -1, 0)
       ELSE IF question.question_type \in {"fill_blank", "short_answer"}
       THEN IF correct_normalized = answer_normalized
            THEN Outcome(PyTrue, "Answer matches expected response", -1, 0)
            ELSE IF Len(filled) > 0 THEN filled[1]
            ELSE IF Len(verdict) > 0 THEN verdict[1]
            ELSE IF question.question_type = "short_answer"
            THEN keyword_fallback(correct_answer, student_answer, calls)
            ELSE default_matching(correct_answer, student_answer, calls)
       ELSE default_matching(correct_answer, student_answer, 0)

\* views.py:713-741, one question of student_submit_quiz: posted is the
\* form value of the question (the empty string when the form has none).
\* answered tells whether question.student_answer was assigned.
grade_question(question, posted, extracted_text, gemini, response) ==
    LET answer == strip(posted)
        verified == verify_answer_with_content(question, answer, extracted_text,
                                               gemini, response)
    IN IF answer # <<>>
       THEN [answered |-> TRUE, student_answer |-> answer,
             is_correct |-> verified.is_correct, reason |-> verified.reason,
             pct |-> verified.pct, calls |-> verified.calls]
       ELSE [answered |-> FALSE, student_answer |-> <<>>,
             is_correct |-> PyFalse, reason |-> "No answer provided",
             pct |-> -1, calls |-> 0]

\* ------------------------------------------------------ heuristic generator

Digits == <<"0", "1", "2", "3", "4", "5", "6", "7", "8", "9">>
DigitChars == Range(Digits)
AlnumChars == Range(Digits) \cup Range(UpperCase) \cup Range(LowerCase)
isdigit_char(c) == c \in DigitChars
isalnum_char(c) == c \in AlnumChars
\* \w of the re module, on the characters of the model
is_word_char(c) == isalnum_char(c) \/ c = "_"

RECURSIVE str_int(_)
\* str(n) of a natural number
str_int(n) ==
    IF n < 10 THEN <<Digits[n + 1]>>
    ELSE str_int(n \div 10) \o <<Digits[(n % 10) + 1]>>

\* s[:n]
slice(s, n) == SubSeq(s, 1, IF n < Len(s) THEN n ELSE Len(s))

\* None where a str is expected, and where a question type is
PyNone == <<"<None>">>
NoType == "<None>"
\* the markers of a key a question dict does not hold: of a str, and of the
\* list of options (a question type has Missing)
NoKey == <<"<missing>">>
NoOptions == <<<<"<missing>">>>>

Question(question_text, correct_answer, question_type, options, reference_text) ==
    [question_text |-> question_text, correct_answer |-> correct_answer,
     question_type |-> question_type, options |-> options,
     reference_text |-> reference_text]

\* Where (?<=[.!?])\s+ matches: at a whitespace character that follows one
\* of . ! ? (and then over the whitespace that follows it)
split_points(text) ==
    {i \in 2..Len(text) : text[i] \in Whitespace /\ text[i - 1] \in {".", "!", "?"}}

\* The last character of the run of whitespace that starts at i
run_end(text, i) ==
    CHOOSE e \in i..Len(text) :
        /\ \A k \in i..e : text[k] \in Whitespace
        /\ e = Len(text) \/ text[e + 1] \notin Whitespace

RECURSIVE split_sentences_from(_, _, _)
split_sentences_from(text, start, points) ==
    IF points = {} THEN <<SubSeq(text, start, Len(text))>>
    ELSE LET i == Min(points)
             e == run_end(text, i)
         IN <<SubSeq(text, start, i - 1)>>
                \o split_sentences_from(text, e + 1, {p \in points : p > e})

\* views.py:294, re.split(r'(?<=[.!?])\s+', text)
split_sentences(text) == split_sentences_from(text, 1, split_points(text))

starts_with_ignoring_case(s, prefix) ==
    Len(s) >= Len(prefix) /\ lower(SubSeq(s, 1, Len(prefix))) = prefix

\* views.py:302, re.match(r'^(Page|\d+|Figure|Fig\.|Table|Diagram)', s, re.IGNORECASE)
is_structural_noise(s) ==
    \/ Len(s) > 0 /\ isdigit_char(s[1])
    \/ \E prefix \in {<<"p","a","g","e">>, <<"f","i","g","u","r","e">>, <<"f","i","g",".">>, <<"t","a","b","l","e">>, <<"d","i","a","g","r","a","m">>} :
          starts_with_ignoring_case(s, prefix)

\* s.count(' ')
count_spaces(s) == Cardinality({i \in 1..Len(s) : s[i] = " "})

\* views.py:297-305
good_sentences(text) ==
    LET sentences == split_sentences(text)
        stripped == [i \in 1..Len(sentences) |-> strip(sentences[i])]
    IN SelectSeq(stripped,
                 LAMBDA s : ~(\/ Len(s) < MIN_SENTENCE_LEN
                              \/ is_structural_noise(s)
                              \/ count_spaces(s) < MIN_SPACES))

\* \b of the re module between s[i] and s[i + 1]
word_boundary(s, i) ==
    (i >= 1 /\ is_word_char(s[i])) # (i < Len(s) /\ is_word_char(s[i + 1]))

\* views.py:341, re.search(r'\b(figure|fig\.|diagram|graph|chart|table|image)\b', ...)
has_figure(sentence) ==
    \E word \in {<<"f","i","g","u","r","e">>, <<"f","i","g",".">>, <<"d","i","a","g","r","a","m">>, <<"g","r","a","p","h">>, <<"c","h","a","r","t">>,
                 <<"t","a","b","l","e">>, <<"i","m","a","g","e">>} :
        \E i \in 0..(Len(sentence) - Len(word)) :
            /\ lower_char(sentence[i + 1]) = word[1]
            /\ word_boundary(sentence, i)
            /\ word_boundary(sentence, i + Len(word))
            /\ lower(SubSeq(sentence, i + 1, i + Len(word))) = word

\* views.py:342
reference_note(sentence) ==
    IF has_figure(sentence)
    THEN <<"[","N","o","t","e",":"," ","T","h","i","s"," ","c","o","n","t","e","n","t"," ","m","a","y"," ","r","e","f","e","r","e","n","c","e"," ","v","i","s","u","a","l"," ","e","l","e","m","e","n","t","s"," ","f","r","o","m"," ","t","h","e"," ","o","r","i","g","i","n","a","l"," ","d","o","c","u","m","e","n","t","]","\n","\n">>
             \o sentence
    ELSE sentence

\* views.py:390, re.sub(r'[^\w]', '', word)
clean_word(word) == SelectSeq(word, is_word_char)

\* views.py:388-395: the positions of the important words
important_words(words) ==
    SelectSeq([i \in 1..Len(words) |-> i],
              LAMBDA i :
                  LET clean == clean_word(words[i])
                  IN /\ Len(clean) > FILL_MIN_CLEAN
                     /\ \A k \in 1..Len(clean) : isalnum_char(clean[k])
                     /\ ~(\A k \in 1..Len(clean) : isdigit_char(clean[k]))
                     /\ i > 1 /\ i < Len(words))

\* views.py:380-408. pick is what random.choice draws, counted around the
\* important words. The result is the empty sequence for None, else the
\* pair in a one-element sequence.
create_fill_blank(sentence, pick) ==
    LET words == split(sentence)
        important == important_words(words)
    IN IF Len(words) < FILL_MIN_WORDS THEN <<>>
       ELSE IF Len(important) = 0 THEN <<>>
       ELSE LET idx == important[((pick - 1) % Len(important)) + 1]
                blanked == join(<<" ">>, [i \in 1..Len(words) |->
                               IF i = idx THEN <<"_","_","_","_","_">> ELSE words[i]])
                question_text == IF Len(blanked) > FILL_MAX_LEN
                                 THEN slice(blanked, FILL_MAX_LEN) \o <<".",".",".">>
                                 ELSE blanked
            IN <<[question_text |-> question_text,
                  answer |-> clean_word(words[idx])]>>

\* views.py:321-323
mcq_template(s, note) ==
    Question(<<"W","h","i","c","h"," ","s","t","a","t","e","m","e","n","t"," ","b","e","s","t"," ","d","e","s","c","r","i","b","e","s"," ","t","h","e"," ","f","o","l","l","o","w","i","n","g","?","\n">>
                 \o slice(s, MCQ_EXCERPT) \o <<".",".",".">>,
             <<"C","o","r","r","e","c","t">>, "mcq",
             <<<<"C","o","r","r","e","c","t">>, <<"I","n","c","o","r","r","e","c","t">>, <<"P","a","r","t","i","a","l","l","y"," ","c","o","r","r","e","c","t">>, <<"C","a","n","n","o","t"," ","d","e","t","e","r","m","i","n","e">>>>,
             note)

\* views.py:325-327
true_false_template(s, note) ==
    Question(<<"T","h","e"," ","f","o","l","l","o","w","i","n","g"," ","s","t","a","t","e","m","e","n","t"," ","i","s"," ","t","r","u","e",":"," ">>
                 \o slice(s, TRUE_FALSE_EXCERPT) \o <<".",".",".">>,
             <<"T","r","u","e">>, "true_false", <<<<"T","r","u","e">>, <<"F","a","l","s","e">>>>, note)

\* views.py:328-330
short_answer_template(s, note) ==
    Question(<<"E","x","p","l","a","i","n"," ","t","h","e"," ","c","o","n","c","e","p","t",":"," ">> \o slice(s, SHORT_EXCERPT) \o <<".",".",".">>,
             slice(s, SHORT_ANSWER_LEN), "short_answer", <<>>, note)

\* views.py:309-315
minimal_question ==
    Question(<<"B","a","s","e","d"," ","o","n"," ","t","h","e"," ","c","o","n","t","e","n","t"," ","p","r","o","v","i","d","e","d",","," ","w","h","a","t"," ","a","r","e"," ","t","h","e"," ","k","e","y"," ","c","o","n","c","e","p","t","s"," ","d","i","s","c","u","s","s","e","d","?">>,
             <<"P","l","e","a","s","e"," ","r","e","f","e","r"," ","t","o"," ","t","h","e"," ","s","t","u","d","y"," ","m","a","t","e","r","i","a","l">>, "short_answer", <<>>,
             <<"P","l","e","a","s","e"," ","r","e","v","i","e","w"," ","t","h","e"," ","u","p","l","o","a","d","e","d"," ","d","o","c","u","m","e","n","t"," ","f","o","r"," ","d","e","t","a","i","l","s",".">>)

\* views.py:370-376
generic_question(number) ==
    Question(<<"W","h","a","t"," ","a","r","e"," ","t","h","e"," ","k","e","y"," ","t","a","k","e","a","w","a","y","s"," ","f","r","o","m"," ","t","h","e"," ","s","t","u","d","y"," ","m","a","t","e","r","i","a","l","?"," ","(","T","o","p","i","c"," ">>
                 \o str_int(number) \o <<")">>,
             <<"R","e","f","e","r"," ","t","o"," ","t","h","e"," ","s","t","u","d","y"," ","m","a","t","e","r","i","a","l"," ","f","o","r"," ","c","o","m","p","r","e","h","e","n","s","i","v","e"," ","u","n","d","e","r","s","t","a","n","d","i","n","g">>,
             "short_answer", <<>>,
             <<"T","h","i","s"," ","q","u","e","s","t","i","o","n"," ","r","e","q","u","i","r","e","s"," ","c","o","m","p","r","e","h","e","n","s","i","v","e"," ","r","e","v","i","e","w"," ","o","f"," ","t","h","e"," ","u","p","l","o","a","d","e","d"," ","d","o","c","u","m","e","n","t",".">>)

\* views.py:337-363, the body of the loop for the i-th sentence (from 0)
question_for(sentence, i, picks) ==
    LET note == reference_note(sentence)
        filled == create_fill_blank(sentence, picks[i])
    IN CASE i % 4 = 0 -> <<mcq_template(sentence, note)>>
         [] i % 4 = 1 -> IF Len(filled) = 0 THEN <<>>
                         ELSE <<Question(filled[1].question_text, filled[1].answer,
                                         "fill_blank", <<>>, note)>>
         [] i % 4 = 2 -> <<true_false_template(sentence, note)>>
         [] i % 4 = 3 -> <<short_answer_template(sentence, note)>>

RECURSIVE basic_loop(_, _, _, _, _)
\* views.py:333-366
basic_loop(sentences, i, questions, max_questions, picks) ==
    IF i >= Len(sentences) \/ Len(questions) >= max_questions THEN questions
    ELSE basic_loop(sentences, i + 1,
                    questions \o question_for(sentences[i + 1], i, picks),
                    max_questions, picks)

\* A faulty variant: pad_generic stopping one question short
RECURSIVE PadsOneShort(_, _)
PadsOneShort(questions, max_questions) ==
    IF Len(questions) + 1 >= max_questions THEN questions
    ELSE PadsOneShort(Append(questions, generic_question(Len(questions) + 1)),
                      max_questions)

\* views.py:369-376
RECURSIVE pad_generic(_, _)
pad_generic(questions, max_questions) ==
    IF Len(questions) >= max_questions THEN questions
    ELSE pad_generic(Append(questions, generic_question(Len(questions) + 1)),
                     max_questions)

\* The positions of the loop of views.py:333, over the first
\* max_questions * 2 of the good sentences, that call create_fill_blank
fill_blank_turns(good, max_questions) ==
    {i \in 0..(Len(slice(good, max_questions * 2)) - 1) : i % 4 = 1}

\* views.py:288-378. shuffled is the order random.shuffle leaves the good
\* sentences in, a permutation of their positions; picks[i] is what
\* random.choice draws for the sentence at position i of the loop.
generate_basic_questions(text, max_questions, shuffled, picks) ==
    IF text = <<>> THEN <<>>
    ELSE LET good == good_sentences(text)
             order == [i \in 1..Len(good) |-> good[shuffled[i]]]
         IN IF Len(good) = 0
            THEN [i \in 1..max_questions |-> minimal_question]
            ELSE slice(pad_generic(basic_loop(slice(order, max_questions * 2), 0, <<>>,
                                              max_questions, picks),
                                   max_questions),
                       max_questions)

\* ---------------------------------------------------------- AI synthesizer

\* dict.get(key, default) on a question dict
item_get(value, default) == IF value = NoKey THEN default ELSE value

\* views.py:259-265
format_question(q) ==
    Question(item_get(q.q, item_get(q.question_text, <<>>)),
             item_get(q.answer, item_get(q.correct_answer, <<>>)),
             get(q.type, get(q.question_type, "text")),
             IF q.options = NoOptions THEN <<>> ELSE q.options,
             item_get(q.ref, item_get(q.reference_text, <<>>)))

\* views.py:269-274; the dict has no 'reference_text' key
content_question(number) ==
    Question(<<"Q","u","e","s","t","i","o","n"," ">> \o str_int(number) \o <<" ","b","a","s","e","d"," ","o","n"," ","c","o","n","t","e","n","t",".">>,
             <<"A","n","s","w","e","r"," ","b","a","s","e","d"," ","o","n"," ","c","o","n","t","e","n","t">>, "short_answer", <<>>, NoKey)

RECURSIVE pad_content(_, _)
\* views.py:268-274
pad_content(questions, max_questions) ==
    IF Len(questions) >= max_questions THEN questions
    ELSE pad_content(Append(questions, content_question(Len(questions) + 1)),
                     max_questions)

\* views.py:182-277, the try block: the exception it raises, "" when it
\* returns, and then the list it returns. response is what the service does,
\* shuffled its questions as random.shuffle leaves them.
synthesize(max_questions, response, shuffled) ==
    LET taken == slice(shuffled, max_questions)
    IN CASE response.kind = "raise" -> [exception |-> "Exception", questions |-> <<>>]
         [] response.kind = "not_json" -> [exception |-> "JSONDecodeError", questions |-> <<>>]
         [] response.kind = "not_object" -> [exception |-> "AttributeError", questions |-> <<>>]
         [] response.kind = "questions_not_list" -> [exception |-> "TypeError", questions |-> <<>>]
         [] OTHER ->
              IF \E i \in 1..Len(taken) : ~taken[i].dict
              THEN [exception |-> "AttributeError", questions |-> <<>>]
              ELSE [exception |-> "",
                    questions |->
                        slice(pad_content([i \in 1..Len(taken) |-> format_question(taken[i])],
                                          max_questions),
                              max_questions)]

\* A faulty variant: caught without the clause of views.py:282
OnlyJsonErrorsCaught(exception) == exception = "JSONDecodeError"

\* views.py:279-286: the except clauses, which catch every exception
caught(exception) == exception = "JSONDecodeError" \/ exception # ""

\* views.py:171-286. basic_call holds the arguments of the call of
\* generate_basic_questions the function returns the result of, if it makes
\* one (questions is then for that call to give); raised tells whether an
\* exception leaves the function; calls counts those of generate_content.
generate_questions_from_text(text, max_questions, gemini, response, shuffled) ==
    LET tried == synthesize(max_questions, response, shuffled)
        delegate == <<[text |-> text, max_questions |-> max_questions]>>
    IN IF text = <<>>
       THEN [questions |-> <<>>, basic_call |-> <<>>, raised |-> FALSE, calls |-> 0]
       ELSE IF ~gemini
       THEN [questions |-> <<>>, basic_call |-> delegate, raised |-> FALSE,
             calls |-> 0]
       ELSE IF tried.exception = ""
       THEN [questions |-> tried.questions, basic_call |-> <<>>, raised |-> FALSE,
             calls |-> 1]
       ELSE IF caught(tried.exception)
       THEN [questions |-> <<>>, basic_call |-> delegate, raised |-> FALSE,
             calls |-> 1]
       ELSE [questions |-> <<>>, basic_call |-> <<>>, raised |-> TRUE, calls |-> 1]

\* views.py:173-233: the call gets to generate_content
service_reached(text, gemini) ==
    generate_questions_from_text(text, 0, gemini, [kind |-> "raise", questions |-> <<>>],
                                 <<>>).calls > 0

\* ------------------------------------------------------- upload and retake

\* views.py:171: the max_questions of a call that passes none, as the
\* upload and the retake do; 25 in the code, scaled down in the model.
default_max_questions == MaxQuestions

\* views.py:483, json.dumps of a list of str (none of the model's options
\* holds a character that JSON escapes)
json_dumps(options) ==
    <<"[">> \o join(<<","," ">>, [i \in 1..Len(options) |-> <<"\"">> \o options[i] \o <<"\"">>])
         \o <<"]">>

\* views.py:474-485, the row QuizQuestion.objects.create is given; the
\* columns it is not given take their defaults (models.py:236-237).
question_row(q, idx) ==
    [question_number |-> idx,
     student_answer |-> PyNone,
     is_correct |-> JsonNull,
     question_text |-> q.question_text,
     correct_answer |-> q.correct_answer,
     question_type |-> get(q.question_type, "text"),
     options |-> IF Len(q.options) > 0 THEN json_dumps(q.options) ELSE PyNone,
     reference_text |-> item_get(q.reference_text, <<>>)]

\* models.py:226-243: the columns of QuizQuestion that take no NULL
violates_not_null(row) ==
    \/ row.question_text = PyNone
    \/ row.correct_answer = PyNone
    \/ row.question_type = NoType
    \/ row.reference_text = PyNone

RECURSIVE save_questions(_, _, _)
\* views.py:473-486 and views.py:546-558: the loop that creates the rows,
\* left by the first create that raises. The result holds the rows created
\* and whether the loop was left so.
save_questions(questions, idx, created) ==
    IF idx > Len(questions) THEN [rows |-> created, raised |-> FALSE]
    ELSE IF violates_not_null(question_row(questions[idx], idx))
    THEN [rows |-> created, raised |-> TRUE]
    ELSE save_questions(questions, idx + 1,
                        Append(created, question_row(questions[idx], idx)))

\* views.py:454-459, the StudentQuiz row the upload creates; score and
\* percentage are None (the empty sequence) and status is its default
\* (models.py:191-196).
new_quiz(syllabus_text) ==
    [extracted_text |-> slice(syllabus_text, EXTRACTED_TEXT_LIMIT),
     questions_generated |-> FALSE,
     score |-> <<>>,
     percentage |-> <<>>,
     status |-> "pending"]

\* ------------------------------------------------------- Python's floats

\* The bits of the significand of a Python float (an IEEE 754 double), in
\* which views.py:744, 817 and 842 compute a / b * 100.
SIGNIFICAND_BITS == 53

\* A float that is not negative: its whole part and the binary digits after
\* the point, the last of them 1.
PyFloat(whole, frac) == [whole |-> whole, frac |-> frac]

RECURSIVE without_trailing_zeros(_)
without_trailing_zeros(bits) ==
    IF bits = <<>> \/ bits[Len(bits)] = 1 THEN bits
    ELSE without_trailing_zeros(SubSeq(bits, 1, Len(bits) - 1))

RECURSIVE binary_digits(_, _, _, _)
\* The next count binary digits of r / d (0 <= r < d) after those of bits,
\* with the remainder they leave
binary_digits(r, d, count, bits) ==
    IF count = 0 THEN [bits |-> bits, rem |-> r]
    ELSE binary_digits((2 * r) % d, d, count - 1, Append(bits, (2 * r) \div d))

RECURSIVE increment(_)
\* One unit in the last place added to the digits after the point
increment(bits) ==
    IF bits = <<>> THEN [carry |-> 1, bits |-> <<>>]
    ELSE IF bits[Len(bits)] = 0
    THEN [carry |-> 0, bits |-> [bits EXCEPT ![Len(bits)] = 1]]
    ELSE LET up == increment(SubSeq(bits, 1, Len(bits) - 1))
         IN [carry |-> up.carry, bits |-> Append(up.bits, 0)]

RECURSIVE leading_zeros(_, _)
\* The zeros between the point and the first 1 of r / d (0 < r < d)
leading_zeros(r, d) ==
    IF 2 * r >= d THEN 0 ELSE 1 + leading_zeros(2 * r, d)

RECURSIVE bit_length(_)
bit_length(n) == IF n = 0 THEN 0 ELSE 1 + bit_length(n \div 2)

\* int / int, the quotient rounded to the nearest float, ties to even
\* (0 <= a <= b, 0 < b)
true_divide(a, b) ==
    IF a = b THEN PyFloat(1, <<>>)
    ELSE IF a = 0 THEN PyFloat(0, <<>>)
    ELSE LET exact == binary_digits(a, b, leading_zeros(a, b) + SIGNIFICAND_BITS, <<>>)
             up == \/ 2 * exact.rem > b
                   \/ 2 * exact.rem = b /\ exact.bits[Len(exact.bits)] = 1
             rounded == IF up THEN increment(exact.bits)
                        ELSE [carry |-> 0, bits |-> exact.bits]
         IN PyFloat(rounded.carry, without_trailing_zeros(rounded.bits))

RECURSIVE times_digits(_, _, _, _)
\* The digits after the point times k, from digit i back to the point
times_digits(bits, k, i, carry) ==
    IF i = 0 THEN [whole |-> carry, bits |-> bits]
    ELSE times_digits([bits EXCEPT ![i] = (k * bits[i] + carry) % 2], k, i - 1,
                      (k * bits[i] + carry) \div 2)

\* float * int, the product rounded to the nearest float, ties to even
\* (x * k at least 1)
float_times(x, k) ==
    LET product == times_digits(x.frac, k, Len(x.frac), 0)
        whole == x.whole * k + product.whole
        keep == SIGNIFICAND_BITS - bit_length(whole)
        kept == SubSeq(product.bits, 1, keep)
        tail == SubSeq(product.bits, keep + 1, Len(product.bits))
        odd == IF keep = 0 THEN whole % 2 = 1 ELSE kept[keep] = 1
        up == /\ tail # <<>>
              /\ tail[1] = 1
              /\ odd \/ \E i \in 2..Len(tail) : tail[i] = 1
        rounded == IF up THEN increment(kept) ELSE [carry |-> 0, bits |-> kept]
    IN IF keep >= Len(product.bits)
       THEN PyFloat(whole, without_trailing_zeros(product.bits))
       ELSE PyFloat(whole + rounded.carry, without_trailing_zeros(rounded.bits))

\* A faulty variant: percent with the division of integers
PercentFloorDivision(a, b) ==
    IF b > 0 THEN PyFloat((a \div b) * 100, <<>>) ELSE PyFloat(0, <<>>)

\* views.py:744, 817, 842: (a / b * 100) if b > 0 else 0
percent(a, b) ==
    IF b > 0
    THEN IF a = 0 THEN PyFloat(0, <<>>) ELSE float_times(true_divide(a, b), 100)
    ELSE PyFloat(0, <<>>)

\* x < n and x >= n, for a float x and an int n
float_less(x, n) == x.whole < n
float_at_least(x, n) == x.whole >= n

\* ----------------------------------------------------------------- grading

\* models.py:237, is_correct = BooleanField(null=True): what question.save()
\* stores without raising. The field's to_python takes True, False and None
\* and raises ValidationError on a str that names no boolean.
boolean_field_accepts(value) == value \in {PyTrue, PyFalse, JsonNull}

\* views.py:708, int(request.POST.get('time_taken', 0)): whether int takes
\* the posted value, which is a str or is missing
int_accepts(time_taken) ==
    \/ time_taken = NoKey
    \/ /\ strip(time_taken) # <<>>
       /\ \A i \in 1..Len(strip(time_taken)) : isdigit_char(strip(time_taken)[i])

RECURSIVE grade_rows(_, _, _, _)
\* views.py:713-741, the loop of student_submit_quiz from question i on.
\* graded[i] is what the body comes to for question i (grade_question);
\* question.save() raises on a verdict the column does not take, and the
\* exception leaves the handler, which catches none.
grade_rows(questions, graded, i, score) ==
    IF i > Len(questions)
    THEN [rows |-> questions, score |-> score, raised |-> FALSE]
    ELSE IF ~boolean_field_accepts(graded[i].is_correct)
    THEN [rows |-> questions, score |-> score, raised |-> TRUE]
    ELSE grade_rows(
            [questions EXCEPT ![i] =
                [@ EXCEPT !.student_answer = IF graded[i].answered
                                             THEN graded[i].student_answer ELSE @,
                          !.is_correct = graded[i].is_correct]],
            graded, i + 1,
            IF graded[i].is_correct = PyTrue THEN score + 1 ELSE score)

\* views.py:699-758, student_submit_quiz: the rows and the quiz it leaves,
\* and whether an exception left it.
student_submit_quiz(old_quiz, questions, method, time_taken, graded) ==
    IF method # "POST"
    THEN [quiz |-> old_quiz, rows |-> questions, raised |-> FALSE, graded |-> FALSE]
    ELSE IF ~int_accepts(time_taken)
    THEN [quiz |-> old_quiz, rows |-> questions, raised |-> TRUE, graded |-> FALSE]
    ELSE LET pass == grade_rows(questions, graded, 1, 0)
         IN [quiz |-> IF pass.raised THEN old_quiz
                      ELSE [old_quiz EXCEPT
                               !.score = <<pass.score>>,
                               !.percentage = <<percent(pass.score, Len(questions))>>,
                               !.status = "completed"],
             rows |-> pass.rows, raised |-> pass.raised, graded |-> TRUE]

\* ----------------------------------------------------------------- results

\* views.py:844, accuracy < 60
WEAK_BELOW == 60
\* views.py:846, accuracy >= 80
STRONG_FROM == 80
\* views.py:854, percentage < 90
RECOMMEND_BELOW == 90
\* views.py:801, [:3]
MAX_RECOMMENDATIONS == 3

ToUpper ==
    [c \in Range(LowerCase) |-> UpperCase[CHOOSE i \in 1..26 : LowerCase[i] = c]]

\* str.title(): a letter that follows no letter in upper case, every other
\* letter in lower case
title(s) ==
    [i \in 1..Len(s) |->
        IF i > 1 /\ s[i - 1] \in DOMAIN ToUpper \cup DOMAIN ToLower
        THEN lower_char(s[i])
        ELSE IF s[i] \in DOMAIN ToUpper THEN ToUpper[s[i]] ELSE s[i]]

\* views.py:843, qtype.replace('_', ' ').title()
type_name(qtype) ==
    title([i \in 1..Len(qtype) |-> IF qtype[i] = "_" THEN " " ELSE qtype[i]])

\* The question types as Python strs
TypeChars ==
    [mcq |-> <<"m","c","q">>, tf |-> <<"t","f">>, fill_blank |-> <<"f","i","l","l","_","b","l","a","n","k">>,
     short_answer |-> <<"s","h","o","r","t","_","a","n","s","w","e","r">>, true_false |-> <<"t","r","u","e","_","f","a","l","s","e">>,
     text |-> <<"t","e","x","t">>]

RECURSIVE keys_in_order(_, _)
\* views.py:829-836: the keys of type_stats, a dict, in the order the loop
\* inserted them
keys_in_order(questions, seen) ==
    IF questions = <<>> THEN seen
    ELSE keys_in_order(Tail(questions),
                       IF Head(questions).question_type \in Range(seen) THEN seen
                       ELSE Append(seen, Head(questions).question_type))

\* views.py:833-836, type_stats[qtype]
type_stats(questions, qtype) ==
    [total |-> Cardinality({i \in 1..Len(questions) :
                               questions[i].question_type = qtype}),
     correct |-> Cardinality({i \in 1..Len(questions) :
                                 /\ questions[i].question_type = qtype
                                 /\ questions[i].is_correct = PyTrue})]

\* A faulty variant: is_weak taking 60 itself for weak
WeakAtOrBelow(accuracy) ==
    float_less(accuracy, WEAK_BELOW) \/ accuracy = PyFloat(WEAK_BELOW, <<>>)

\* views.py:844
is_weak(accuracy) == float_less(accuracy, WEAK_BELOW)

\* views.py:846, reached when the type is not weak
is_strong(accuracy) == float_at_least(accuracy, STRONG_FROM)

\* views.py:839-847: weak_areas (or strong_areas, when strong is TRUE)
areas(questions, strong) ==
    LET keys == keys_in_order(questions, <<>>)
        accuracy(qtype) == percent(type_stats(questions, qtype).correct,
                                   type_stats(questions, qtype).total)
        listed == SelectSeq(keys,
                            LAMBDA qtype :
                                IF is_weak(accuracy(qtype)) THEN ~strong
                                ELSE strong /\ is_strong(accuracy(qtype)))
    IN [i \in 1..Len(listed) |-> type_name(TypeChars[listed[i]])]

\* How the generative service can answer the one call of
\* get_study_recommendations: the call raises; the text is no JSON; the JSON
\* is no object; or it is an object whose "recommendations" has this shape
\* ("missing" when the object has no such key). A recommendation is a dict
\* with the keys it holds, or some JSON value that is no dict.
Recommendation(is_dict, topic, description) ==
    [dict |-> is_dict, topic |-> topic, description |-> description]
FullRecommendation == Recommendation(TRUE, "Heaps", "Review the heap order")
BareRecommendation == Recommendation(TRUE, Missing, Missing)
NoDict == Recommendation(FALSE, Missing, Missing)

RecommendResponses ==
    {[kind |-> k, shape |-> "missing", items |-> <<>>] :
        k \in {"raise", "not_json", "not_object", "object"}}
    \cup {[kind |-> "object", shape |-> "null", items |-> <<>>]}
    \cup {[kind |-> "object", shape |-> "str", items |-> chars] :
             chars \in {<<>>, <<NoDict, NoDict, NoDict, NoDict>>}}
    \cup {[kind |-> "object", shape |-> "list", items |-> items] :
             items \in {<<>>, <<FullRecommendation>>, <<BareRecommendation>>,
                        <<FullRecommendation, BareRecommendation, FullRecommendation,
                          FullRecommendation>>,
                        <<FullRecommendation, FullRecommendation, FullRecommendation,
                          NoDict>>,
                        <<FullRecommendation, NoDict>>}}

\* views.py:761-805, get_study_recommendations: what it returns and the
\* generate_content calls it makes. The arguments only feed the prompt. A
\* raise of the call, of json.loads, of .get on a value that is no dict, or
\* of [:3] on a value that takes no slice is caught at line 803; a str is
\* sliced to its first characters.
get_study_recommendations(gemini, response) ==
    IF ~gemini THEN [recommendations |-> <<>>, calls |-> 0]
    ELSE IF response.kind = "object" /\ response.shape \in {"missing", "str", "list"}
    THEN [recommendations |-> slice(response.items, MAX_RECOMMENDATIONS), calls |-> 1]
    ELSE [recommendations |-> <<>>, calls |-> 1]

\* views.py:858-864: the loop over ai_recommendations; rec.get raises
\* AttributeError on a value that is no dict, and nothing catches it.
shown_recommendations(ai_recommendations) ==
    [raised |-> \E i \in 1..Len(ai_recommendations) : ~ai_recommendations[i].dict,
     recommendations |->
        [i \in 1..Len(ai_recommendations) |->
            [title |-> get(ai_recommendations[i].topic, "Study Recommendation"),
             description |-> get(ai_recommendations[i].description,
                                 "Focus on improving this area")]]]

\* views.py:814-847, the statistics student_quiz_results computes from
\* the questions
quiz_statistics(questions) ==
    LET score == Cardinality({i \in 1..Len(questions) :
                                 questions[i].is_correct = PyTrue})
    IN [score |-> score,
        total_questions |-> Len(questions),
        percentage |-> percent(score, Len(questions)),
        weak_areas |-> areas(questions, FALSE),
        strong_areas |-> areas(questions, TRUE)]

\* views.py:808-893, student_quiz_results: the context it renders, or
\* raised when an exception left it. statistics is what lines 814-847 make
\* of the questions.
student_quiz_results(statistics, gemini, response) ==
    LET asked == /\ statistics.weak_areas # <<>>
                 /\ float_less(statistics.percentage, RECOMMEND_BELOW)
        ai == IF asked THEN get_study_recommendations(gemini, response)
              ELSE [recommendations |-> <<>>, calls |-> 0]
        shown == shown_recommendations(ai.recommendations)
    IN [raised |-> shown.raised,
        statistics |-> statistics,
        recommendations |-> IF shown.raised THEN <<>> ELSE shown.recommendations,
        asked |-> asked,
        calls |-> ai.calls,
        service |-> IF ai.calls = 0 THEN "not called" ELSE response.kind,
        shape |-> IF ai.calls = 0 THEN "not called" ELSE response.shape,
        sent |-> IF ai.calls = 0 THEN <<>> ELSE response.items]

\* -------------------------------------------------------------- extraction

\* views.py:105, 111, 137: len(text) against 100
MIN_PDF_TEXT == 100

\* views.py:93, re.sub(r' {2,}', ' ', text): of a run of blanks the first
\* is kept
collapse_spaces(text) ==
    LET kept == SelectSeq([i \in 1..Len(text) |-> i],
                          LAMBDA i : ~(text[i] = " " /\ i > 1 /\ text[i - 1] = " "))
    IN [j \in 1..Len(kept) |-> text[kept[j]]]

\* views.py:81-102 and views.py:124-131, the cleaning of the extracted text.
\* The texts of the model hold no page marker, no control character, no
\* bullet and no three line ends in a row, so that of the substitutions
\* only the one of views.py:93 and the strip act on them.
clean_text(text) == strip(collapse_spaces(text))

\* What a library does with the file: it is not installed ("absent"), it
\* raises after it has yielded text, or it yields text and ends ("text").
Extraction(kind, text) == [kind |-> kind, text |-> text]

\* views.py:54-140, process_pdf. fitz and PyPDF2 are what the two libraries
\* do with the file, their text what the loop over the pages adds.
process_pdf(fitz, PyPDF2) ==
    LET first == IF fitz.kind = "absent" THEN <<>>
                 ELSE IF fitz.kind = "raise" THEN fitz.text
                 ELSE clean_text(fitz.text)
        second == IF PyPDF2.kind = "raise" THEN first \o PyPDF2.text
                  ELSE clean_text(first \o PyPDF2.text)
    IN IF fitz.kind = "text" /\ Len(first) > MIN_PDF_TEXT THEN first
       ELSE IF PyPDF2.kind # "absent" /\ Len(first) < MIN_PDF_TEXT THEN second
       ELSE first

\* views.py:142-159, process_ppt. Presentation is what python-pptx does with
\* the file; the text a raise leaves is kept.
process_ppt(Presentation) ==
    IF Presentation.kind = "absent" THEN <<>> ELSE Presentation.text

\* views.py:161-169, process_uploaded_file. ext is os.path.splitext of the
\* path the file is saved at.
process_uploaded_file(ext, fitz, PyPDF2, Presentation) ==
    IF lower(ext) = <<".","p","d","f">> THEN process_pdf(fitz, PyPDF2)
    ELSE IF lower(ext) \in {<<".","p","p","t">>, <<".","p","p","t","x">>} THEN process_ppt(Presentation)
    ELSE <<>>

\* A faulty variant: extraction_failed letting every text pass
NeverFails(syllabus_text) == FALSE

\* views.py:441, not syllabus_text
extraction_failed(syllabus_text) == syllabus_text = <<>>

\* ----------------------------------------------------------------- inputs

\* QuizQuestion.QUESTION_TYPES, models.py:215-222
QuestionTypes == {"mcq", "tf", "fill_blank", "short_answer", "true_false", "text"}

AnswerTokens ==
    {<<>>, <<"!">>, <<"t","r","e","e">>, <<"a","l","g","o","r","i","t","h","m","s">>, <<"o","f">>}

\* The submitted answers: up to MaxAnswerWords tokens joined by single
\* blanks. The empty token makes the empty answer, the blank answer and the
\* answers with blanks around them.
SubmittedAnswers ==
    {join(<<" ">>, ws) :
        ws \in UNION {[1..k -> AnswerTokens] : k \in 1..MaxAnswerWords}}

\* The expected answers a generator or the service stored with a question.
ExpectedAnswers ==
    { <<>>, <<"o","f">>, <<"t","r","e","e">>, <<"T","r","e","e">>, <<"t","r","e","e"," ">>, <<"T","r","e","e"," ","a","l","g","o","r","i","t","h","m","s">>,
      <<"t","r","e","e"," ","h","e","a","p"," ","a","l","g","o","r","i","t","h","m","s">> }

\* quiz.extracted_text as the verifier sees it: empty, or some text.
ReferenceTexts == {<<>>, <<"A"," ","h","e","a","p"," ","i","s"," ","a"," ","t","r","e","e",".">>}


\* Sentences of an extracted text: two that make questions (only the first
\* has a word create_fill_blank can blank), one that is too short, one that
\* starts as a figure caption, one that mentions a figure, one of too few
\* words.
SentencePool ==
    {<<"B","i","n","a","r","y"," ","s","e","a","r","c","h"," ","h","a","l","v","e","s"," ","t","h","e"," ","s","o","r","t","e","d"," ","a","r","r","a","y"," ","q","u","i","c","k","l","y",".">>,
     <<"A"," ","h","e","a","p"," ","i","s"," ","a"," ","t","r","e","e"," ","t","h","a","t"," ","k","e","e","p","s"," ","i","t","s"," ","o","r","d","e","r"," ","w","e","l","l",".">>,
     <<"T","r","e","e","s"," ","g","r","o","w",".">>,
     <<"F","i","g","u","r","e"," ","2"," ","s","h","o","w","s"," ","h","o","w"," ","t","h","e"," ","b","i","n","a","r","y"," ","h","e","a","p"," ","i","s"," ","s","t","o","r","e","d",".">>,
     <<"T","h","e"," ","s","o","r","t","e","d"," ","a","r","r","a","y"," ","a","p","p","e","a","r","s"," ","i","n"," ","t","h","e"," ","f","i","g","u","r","e"," ","b","e","l","o","w",".">>,
     <<"H","y","p","e","r","p","a","r","a","m","e","t","e","r","i","z","a","t","i","o","n"," ","c","o","n","s","i","d","e","r","e","d"," ","h","a","r","m","f","u","l",".">>}

\* A text of three sentences fit for a question, which takes the loop of
\* generate_basic_questions to its third template
ThreeSentences ==
    <<"B","i","n","a","r","y"," ","s","e","a","r","c","h"," ","h","a","l","v","e","s"," ","t","h","e"," ","s","o","r","t","e","d"," ","a","r","r","a","y"," ","q","u","i","c","k","l","y","."," ","A"," ","h","e","a","p"," ","i","s"," ","a"," ","t","r","e","e"," ","t","h","a","t"," ","k","e","e","p","s"," ","i","t","s"," ","o","r","d","e","r"," ","w","e","l","l","."," ","T","h","e"," ","s","o","r","t","e","d"," ","a","r","r","a","y"," ","a","p","p","e","a","r","s"," ","i","n"," ","t","h","e"," ","f","i","g","u","r","e"," ","b","e","l","o","w",".">>

\* A text whose second sentence is longer than FILL_MAX_LEN characters, its
\* one word to blank beyond them
LongSentence ==
    <<"B","i","n","a","r","y"," ","s","e","a","r","c","h"," ","h","a","l","v","e","s"," ","t","h","e"," ","s","o","r","t","e","d"," ","a","r","r","a","y"," ","q","u","i","c","k","l","y","."," ","T","h","e","n"," ","s","i","f","t","_","d","o","w","n","_","f","r","o","m","_","t","h","e","_","r","o","o","t","_","n","o","d","e"," ","a","n","d"," ","s","i","f","t","_","u","p","_","f","r","o","m","_","t","h","e","_","l","a","s","t","_","l","e","a","f"," ","a","n","d"," ","b","u","i","l","d","_","m","a","x","_","h","e","a","p","_","f","r","o","m","_","a","n","_","a","r","r","a","y"," ","a","n","d"," ","e","x","t","r","a","c","t","_","m","a","x","_","f","r","o","m","_","t","h","e","_","h","e","a","p"," ","a","n","d"," ","i","n","s","e","r","t","_","k","e","y","_","i","n","t","o","_","t","h","e","_","h","e","a","p"," ","a","n","d"," ","d","e","c","r","e","a","s","e","_","k","e","y","_","i","n","_","t","h","e","_","h","e","a","p"," ","a","n","d"," ","m","e","r","g","e","_","t","w","o","_","h","e","a","p","s","_","i","n","_","p","l","a","c","e"," ","r","u","n"," ","q","u","i","c","k","l","y"," ","h","e","r","e",".">>

\* What the extraction of an uploaded file can yield: nothing, blanks only,
\* or sentences of the pool, one blank between two of them.
ExtractedTexts ==
    {<<>>, <<" ">>, ThreeSentences, LongSentence}
        \cup {join(<<" ">>, ss) :
                 ss \in UNION {[1..k -> SentencePool] : k \in 1..MaxSentences}}

\* The number of questions asked of a generator
TargetCounts == 0..MaxQuestions

\* An element of the "questions" list the service answers with: a JSON
\* object (dict) with its keys, or some other JSON value.
Item(dict, q, question_text, answer, correct_answer, type, question_type, options, ref, reference_text) ==
    [dict |-> dict, q |-> q, question_text |-> question_text,
     answer |-> answer, correct_answer |-> correct_answer, type |-> type,
     question_type |-> question_type, options |-> options, ref |-> ref,
     reference_text |-> reference_text]

\* views.py:216, the keys the prompt asks for
ItemShortKeys ==
    Item(TRUE, <<"W","h","a","t"," ","i","s"," ","a"," ","h","e","a","p","?">>, NoKey, <<"A"," ","t","r","e","e">>, NoKey, "mcq", Missing,
         <<<<"A"," ","t","r","e","e">>, <<"A"," ","l","i","s","t">>>>, <<"A"," ","h","e","a","p"," ","i","s"," ","a"," ","t","r","e","e",".">>, NoKey)
\* views.py:260-264, the keys read when those are missing
ItemLongKeys ==
    Item(TRUE, NoKey, <<"A"," ","h","e","a","p"," ","k","e","e","p","s"," ","i","t","s"," ","o","r","d","e","r",".">>, NoKey, <<"T","r","u","e">>, Missing,
         "true_false", NoOptions, NoKey, <<"I","t"," ","k","e","e","p","s"," ","i","t","s"," ","o","r","d","e","r"," ","w","e","l","l",".">>)
\* {}
ItemEmpty ==
    Item(TRUE, NoKey, NoKey, NoKey, NoKey, Missing, Missing, NoOptions, NoKey,
         NoKey)
\* {"q": ..., "type": "short_answer", "answer": ..., "ref": null}
ItemNullRef ==
    Item(TRUE, <<"W","h","y"," ","a"," ","h","e","a","p","?">>, NoKey, <<"I","t"," ","k","e","e","p","s"," ","o","r","d","e","r">>, NoKey,
         "short_answer", Missing, NoOptions, PyNone, NoKey)
\* a JSON string in place of the object
ItemNotDict ==
    Item(FALSE, NoKey, NoKey, NoKey, NoKey, Missing, Missing, NoOptions, NoKey,
         NoKey)

Items == <<ItemShortKeys, ItemLongKeys, ItemEmpty, ItemNullRef, ItemNotDict>>

\* The lists of at most n of these items. The order the service gives them
\* in is of no account, random.shuffle (views.py:253) ordering them anew, so
\* the lists are taken in one order.
ItemLists(n) ==
    UNION {{[i \in 1..k |-> Items[f[i]]] :
               f \in {g \in [1..k -> 1..Len(Items)] :
                         \A i \in 1..(k - 1) : g[i] <= g[i + 1]}} :
           k \in 0..n}

\* views.py:233-249: what the one call of generate_content comes to. It
\* raises; its text is no JSON; the JSON is no object; "questions" is no
\* list; or "questions" is a list (the empty one when the key is missing),
\* of at most n items: fewer than asked for, as many, or more.
GenerateResponses(n) ==
    {[kind |-> k, questions |-> <<>>] :
        k \in {"raise", "not_json", "not_object", "questions_not_list"}}
        \cup {[kind |-> "list", questions |-> qs] :
                 qs \in ItemLists(n)}

\* The service is not called
NotCalled == [kind |-> "not called", questions |-> <<>>]

\* random.shuffle of a list of n elements: the orders it can leave
Shuffles(n) == {p \in [1..n -> 1..n] : \A i, j \in 1..n : p[i] = p[j] => i = j}

\* views.py:253: the lists random.shuffle can leave of this one
Shuffled(list) ==
    {[i \in 1..Len(list) |-> list[p[i]]] : p \in Shuffles(Len(list))}

\* The draws of random.choice in one call of generate_basic_questions on
\* these good sentences
Picks(good, max_questions) ==
    [fill_blank_turns(good, max_questions) ->
        1..Max({1} \cup {Len(important_words(split(good[i]))) : i \in 1..Len(good)})]

\* What random.shuffle and random.choice can do in one call of
\* generate_basic_questions on these good sentences
Draws(good, max_questions) ==
    [shuffled : Shuffles(Len(good)), picks : Picks(good, max_questions)]

\* What generate_basic_questions(text, max_questions) returns, by what
\* random does
BasicResults(text, max_questions) ==
    [draw \in Draws(good_sentences(text), max_questions) |->
        generate_basic_questions(text, max_questions, draw.shuffled, draw.picks)]

\* BasicResults of the arguments passed, which is known when they are
\* text and max_questions
BasicResultsOf(passed, text, max_questions, known) ==
    IF passed = [text |-> text, max_questions |-> max_questions] THEN known
    ELSE BasicResults(passed.text, passed.max_questions)

\* The questions of these results
ResultsIn(basic) == {basic[draw] : draw \in DOMAIN basic}

\* What one call of generate_questions_from_text can come to before it
\* delegates, with what the service did in it; the service answers with
\* lists of at most longest items.
Attempts(text, max_questions, gemini, longest) ==
    UNION {{[result |-> generate_questions_from_text(text, max_questions, gemini,
                                                     response, mixed),
             service |-> response.kind] :
               mixed \in Shuffled(response.questions)} :
           response \in IF service_reached(text, gemini)
                        THEN GenerateResponses(longest)
                        ELSE {NotCalled}}

\* ------------------------------------------------------------------ state

VARIABLES
    genai,      \* views.py:16-27: TRUE when the generative service is configured
    vq,         \* the question given to verify_answer_with_content
    vans,       \* the submitted answer given to it
    vpdf,       \* the reference text given to it
    vres,       \* the outcomes of the calls made with these arguments, in order
    vsvc,       \* what the service did in each of these calls
    vgraded,    \* the outcome of grading the question with vans posted for it
    gtext,      \* the text given to the generators
    gmax,       \* the number of questions asked of them
    gbasic,     \* what generate_basic_questions(gtext, gmax) returned
    gres,       \* what generate_questions_from_text(gtext, gmax) returned
    gsvc,       \* what the service did in that call
    gdraw,      \* what random.shuffle and random.choice did for the sentences
    quiz,       \* the StudentQuiz row, if the upload has created it
    rows,       \* the QuizQuestion rows of the quiz, by question_number
    generation, \* the last generation of questions for the quiz
    grading,    \* the last student_submit_quiz request on the quiz
    results,    \* what the last student_quiz_results request came to
    upload,     \* what the last student_quiz_upload request came to
    served      \* the number of requests made on the quiz so far

vars ==
    <<genai, vq, vans, vpdf, vres, vsvc, vgraded, gtext, gmax, gbasic, gres,
      gsvc, gdraw, quiz, rows, generation, grading, results, upload,
      served>>

verifier_vars == <<vq, vans, vpdf, vres, vsvc, vgraded>>
generator_vars == <<gtext, gmax, gbasic, gres, gsvc, gdraw>>
quiz_vars == <<quiz, rows, generation>>
request_vars == <<grading, results, upload, served>>

\* No call of the verifier is under way
VerifierIdle ==
    /\ vq = [question_type |-> "text", correct_answer |-> <<>>]
    /\ vans = <<>>
    /\ vpdf = <<>>
    /\ vres = <<>>
    /\ vsvc = <<>>
    /\ vgraded = <<>>

\* No call of a generator is under way
GeneratorIdle ==
    /\ gtext = <<>>
    /\ gmax = 0
    /\ gbasic = <<>>
    /\ gres = <<>>
    /\ gsvc = <<>>
    /\ gdraw = <<>>

\* No quiz is uploaded
NoQuiz ==
    /\ quiz = <<>>
    /\ rows = <<>>
    /\ generation = <<>>

\* No request is recorded
NoRequest ==
    /\ grading = <<>>
    /\ results = <<>>
    /\ upload = <<>>
    /\ served = 0

\* --------------------------------------------- the verifier, called twice

InitVerify ==
    /\ genai \in BOOLEAN
    /\ vq \in [question_type : QuestionTypes, correct_answer : ExpectedAnswers]
    /\ vans \in SubmittedAnswers
    /\ vpdf \in ReferenceTexts
    /\ vres = <<>>
    /\ vsvc = <<>>
    /\ vgraded = <<>>
    /\ GeneratorIdle
    /\ NoQuiz
    /\ NoRequest

\* One call of verify_answer_with_content(vq, vans, vpdf); the service, if
\* the call reaches it, answers as it pleases.
VerifyCall ==
    /\ Len(vres) < 2
    /\ Len(vgraded) = 0
    /\ \E made \in {[outcome |-> verify_answer_with_content(vq, vans, vpdf, genai,
                                                             response),
                       kind |-> response.kind] : response \in VerifyResponses} :
          /\ vres' = Append(vres, made.outcome)
          /\ vsvc' = Append(vsvc, IF made.outcome.calls = 0 THEN "not called"
                                  ELSE made.kind)
    /\ UNCHANGED <<genai, vq, vans, vpdf, vgraded>>
    /\ UNCHANGED generator_vars
    /\ UNCHANGED quiz_vars
    /\ UNCHANGED request_vars

\* The grading loop of student_submit_quiz reaches the question, vans being
\* the value posted for it.
GradeQuestion ==
    /\ Len(vgraded) = 0
    /\ Len(vres) = 0
    /\ \E graded \in {grade_question(vq, vans, vpdf, genai, response) :
                          response \in VerifyResponses} :
          vgraded' = <<graded>>
    /\ UNCHANGED <<genai, vq, vans, vpdf, vres, vsvc>>
    /\ UNCHANGED generator_vars
    /\ UNCHANGED quiz_vars
    /\ UNCHANGED request_vars

NextVerify == VerifyCall \/ GradeQuestion

SpecVerify == InitVerify /\ [][NextVerify]_vars

\* ------------------------------------------------ the generators, called

InitGen ==
    /\ genai \in BOOLEAN
    /\ gtext \in ExtractedTexts
    /\ gmax \in TargetCounts
    /\ gbasic = <<>>
    /\ gres = <<>>
    /\ gsvc = <<>>
    /\ gdraw = <<>>
    /\ VerifierIdle
    /\ NoQuiz
    /\ NoRequest

\* One call of generate_basic_questions(gtext, gmax)
BasicCall ==
    /\ Len(gbasic) = 0
    /\ Len(gres) = 0
    /\ \E good \in {good_sentences(gtext)} :
          \E draw \in Draws(good, gmax) :
             /\ gbasic' = <<[questions |->
                                generate_basic_questions(gtext, gmax, draw.shuffled,
                                                         draw.picks),
                             raised |-> FALSE, calls |-> 0]>>
             /\ gdraw' = <<draw>>
    /\ UNCHANGED <<genai, gtext, gmax, gres, gsvc>>
    /\ UNCHANGED verifier_vars
    /\ UNCHANGED quiz_vars
    /\ UNCHANGED request_vars

\* One call of generate_questions_from_text(gtext, gmax), the service, if
\* the call reaches it, answering as it pleases; where the function
\* delegates to generate_basic_questions, that call is made with the
\* arguments the function passes.
GenerateCall ==
    /\ Len(gres) = 0
    /\ Len(gbasic) = 0
    /\ \E known \in {BasicResults(gtext, gmax)} :
          \E made \in Attempts(gtext, gmax, genai, MaxQuestions) :
             /\ gsvc' = <<made.service>>
             /\ IF Len(made.result.basic_call) = 0
                THEN /\ gres' = <<made.result>>
                     /\ gdraw' = <<>>
                ELSE \E basic \in {BasicResultsOf(made.result.basic_call[1],
                                                   gtext, gmax, known)} :
                        \E draw \in DOMAIN basic :
                           /\ gres' = <<[made.result EXCEPT
                                            !.questions = basic[draw]]>>
                           /\ gdraw' = <<draw>>
    /\ UNCHANGED <<genai, gtext, gmax, gbasic>>
    /\ UNCHANGED verifier_vars
    /\ UNCHANGED quiz_vars
    /\ UNCHANGED request_vars

NextGen == BasicCall \/ GenerateCall

SpecGen == InitGen /\ [][NextGen]_vars

\* ------------------------------------------------- a quiz, from its upload

\* The uploaded files: the extension of the name, and what each library
\* makes of the content. The pages of a PDF give nothing, blanks, a
\* sentence, or LongText, of more than MIN_PDF_TEXT characters; the shapes
\* of a presentation give nothing or empty lines.
LongText ==
    <<"\n","B","i","n","a","r","y"," ","s","e","a","r","c","h"," ","h","a","l","v","e","s"," ","t","h","e"," ","s","o","r","t","e","d"," ","a","r","r","a","y"," ","q","u","i","c","k","l","y"," ","a","n","d"," ","a"," ","h","e","a","p"," ","i","s"," ","a"," ","t","r","e","e"," ","t","h","a","t"," ","k","e","e","p","s"," "," ","i","t","s"," ","o","r","d","e","r"," ","w","e","l","l",","," ","a","s"," ","e","v","e","r","y"," ","t","r","e","e"," ","d","o","e","s",".">>

UploadedFiles ==
    [ext : {<<".","p","d","f">>, <<".","P","D","F">>},
     fitz : {Extraction("absent", <<>>), Extraction("raise", <<>>),
             Extraction("text", <<>>), Extraction("text", <<"\n"," ","\n">>),
             Extraction("text", LongText),
             Extraction("text", <<"\n","B","i","n","a","r","y"," ","s","e","a","r","c","h"," ","h","a","l","v","e","s"," ","t","h","e"," ","s","o","r","t","e","d"," ","a","r","r","a","y"," ","q","u","i","c","k","l","y",".">>)},
     PyPDF2 : {Extraction("absent", <<>>), Extraction("raise", <<>>),
               Extraction("text", <<"\n","T","r","e","e","s"," ","g","r","o","w",".">>)},
     Presentation : {Extraction("absent", <<>>)}]
    \cup
    [ext : {<<".","p","p","t","x">>, <<".","p","p","t">>, <<".","t","x","t">>},
     fitz : {Extraction("absent", <<>>)},
     PyPDF2 : {Extraction("absent", <<>>)},
     Presentation : {Extraction("absent", <<>>), Extraction("raise", <<>>),
                     Extraction("text", <<>>), Extraction("text", <<"\n">>)}]

\* What the extraction of the uploaded files yields, with the capability
\* that was asked for it
Extracted ==
    {[text |-> process_uploaded_file(f.ext, f.fitz, f.PyPDF2, f.Presentation),
      ext |-> lower(f.ext),
      capable |-> IF lower(f.ext) = <<".","p","d","f">>
                  THEN f.fitz.kind # "absent" \/ f.PyPDF2.kind # "absent"
                  ELSE f.Presentation.kind # "absent"] : f \in UploadedFiles}

Init ==
    /\ genai \in BOOLEAN
    /\ NoQuiz
    /\ NoRequest
    /\ VerifierIdle
    /\ GeneratorIdle

\* views.py:466-493 and views.py:540-565: the questions are generated from
\* text and saved as the rows of the quiz. The result holds the rows, and
\* whether the handler got to the end of it or was taken to its except
\* clause. questions is what the generator returned.
generate_and_save(result) ==
    IF result.raised THEN [rows |-> <<>>, raised |-> TRUE]
    ELSE save_questions(result.questions, 1, <<>>)

\* What generate_questions_from_text(text) can return, and what the service
\* did for it
Generations(text, gemini) ==
    UNION {UNION {
        IF Len(made.result.basic_call) = 0 THEN {made}
        ELSE {[made EXCEPT !.result.questions = questions] :
                 questions \in ResultsIn(BasicResultsOf(made.result.basic_call[1], text,
                                                        default_max_questions, known))} :
            made \in Attempts(text, default_max_questions, gemini,
                              default_max_questions + 1)} :
            known \in {BasicResults(text, default_max_questions)}}

\* The texts the extraction yields
QuizTexts == {e.text : e \in Extracted}

\* What generating the questions from a text and saving them comes to, by
\* the text and by whether the service is configured
Generated ==
    [gemini \in BOOLEAN |->
        [text \in QuizTexts |->
            {[saved |-> generate_and_save(made.result), service |-> made.service] :
                made \in Generations(text, gemini)}]]

\* What a student_quiz_upload request came to: the message shown, whether
\* the extraction was reached and what was asked of it, and whether
\* questions were generated.
Uploaded(message, extracted, generated) ==
    <<[message |-> message, extracted |-> extracted, generated |-> generated]>>

\* views.py:410-506, student_quiz_upload. student tells whether the session
\* or the form names the student, file whether a file is posted; extracted
\* is what process_uploaded_file makes of the file.
student_quiz_upload(method, student, file, extracted) ==
    /\ quiz = <<>>
    /\ IF method # "POST"
       THEN /\ upload' = Uploaded("", <<>>, FALSE)
            /\ UNCHANGED quiz_vars
       ELSE IF ~student
       THEN /\ upload' = Uploaded("Session expired. Please log in again.", <<>>, FALSE)
            /\ UNCHANGED quiz_vars
       ELSE IF ~file
       THEN /\ upload' = Uploaded("Please upload a file.", <<>>, FALSE)
            /\ UNCHANGED quiz_vars
       ELSE IF extraction_failed(extracted.text)
       THEN /\ upload' = Uploaded("Could not extract text from file.", <<extracted>>,
                                  FALSE)
            /\ UNCHANGED quiz_vars
       ELSE \E made \in Generated[genai][extracted.text] :
               /\ rows' = made.saved.rows
               /\ quiz' = <<[new_quiz(extracted.text) EXCEPT
                                !.questions_generated = ~made.saved.raised]>>
               /\ generation' = <<[by |-> "upload", service |-> made.service,
                                   raised |-> made.saved.raised]>>
               /\ upload' = Uploaded(IF made.saved.raised THEN "Error generating quiz"
                                     ELSE "",
                                     <<extracted>>, TRUE)

Upload ==
    /\ served < MaxRequests
    /\ served' = served + 1
    /\ \E method \in {"GET", "POST"}, student \in BOOLEAN, file \in BOOLEAN,
          extracted \in Extracted :
          student_quiz_upload(method, student, file, extracted)
    /\ UNCHANGED genai
    /\ UNCHANGED verifier_vars
    /\ UNCHANGED generator_vars
    /\ UNCHANGED <<grading, results>>

\* views.py:521-574, student_retake_quiz. Of the attributes it assigns at
\* lines 561-564, only score is a field of StudentQuiz (models.py:170-204).
student_retake_quiz ==
    /\ quiz # <<>>
    /\ IF quiz[1].extracted_text = <<>>
       THEN /\ rows' = <<>>
            /\ UNCHANGED <<quiz, generation>>
       ELSE \E made \in Generated[genai][quiz[1].extracted_text] :
               /\ rows' = made.saved.rows
               /\ quiz' = IF made.saved.raised THEN quiz
                          ELSE <<[quiz[1] EXCEPT !.score = <<>>]>>
               /\ generation' = <<[by |-> "retake", service |-> made.service,
                                   raised |-> made.saved.raised]>>

Retake ==
    /\ served < MaxRequests
    /\ served' = served + 1
    /\ student_retake_quiz
    /\ grading' = <<>>
    /\ results' = <<>>
    /\ UNCHANGED <<genai, upload>>
    /\ UNCHANGED verifier_vars
    /\ UNCHANGED generator_vars

\* ------------------------------------------------- grading and the results

\* What the semantic-verification service does on the calls of a grading
\* pass
GradingResponses ==
    {r \in VerifyResponses :
        \/ r.kind \in {"raise", "not_json"}
        \/ r.kind = "object" /\ r.correct \in {PyTrue, PyFalse, "'yes'", JsonNull}}

\* The values a form posts for a question: none, blanks, or an answer, the
\* expected one among them
PostedAnswers(question) ==
    {<<>>, <<" ">>, <<"t","r","e","e">>, question.correct_answer}

\* What the body of the grading loop came to for a question, with what the
\* service did in it
Graded(grade, response) ==
    [grade |-> grade,
     service |-> IF grade.calls = 0 THEN "not called" ELSE response.kind,
     verdict |-> IF grade.calls = 0 THEN Missing ELSE response.correct]

\* What the body of the grading loop can come to for this question
GradeOptions(question, extracted_text) ==
    {Graded(grade_question(question, posted, extracted_text, genai, response),
            response) :
        posted \in PostedAnswers(question), response \in GradingResponses}

\* A question the loop does not reach, and whether the form answers it
Unreached(question, posted) ==
    [grade |-> [grade_question(question, posted, <<>>, FALSE,
                               CHOOSE r \in GradingResponses : r.kind = "raise")
                EXCEPT !.is_correct = Missing, !.reason = "", !.pct = -1],
     service |-> "not reached",
     verdict |-> Missing]

RECURSIVE Passes(_, _, _)
\* What the grading loop can come to for these questions, one after the
\* other; once a save raised, the questions that follow are not reached.
Passes(questions, extracted_text, left) ==
    IF questions = <<>> THEN {<<>>}
    ELSE UNION {{<<option>> \o rest :
                    rest \in Passes(Tail(questions), extracted_text,
                                    left \/ ~boolean_field_accepts(option.grade.is_correct))} :
                   option \in IF left
                              THEN {Unreached(Head(questions), posted) :
                                       posted \in {<<>>, <<"t","r","e","e">>}}
                              ELSE GradeOptions(Head(questions), extracted_text)}

\* A student_submit_quiz request on the quiz
Submit ==
    /\ quiz # <<>>
    /\ served < MaxRequests
    /\ served' = served + 1
    /\ \E method \in {"GET", "POST"}, time_taken \in {NoKey, <<"9","0">>, <<"s","o","o","n">>} :
          \E pass \in IF method = "POST" /\ int_accepts(time_taken)
                      THEN Passes(rows, quiz[1].extracted_text, FALSE)
                      ELSE {<<>>} :
             \E made \in {student_submit_quiz(
                              quiz[1], rows, method, time_taken,
                              [i \in 1..Len(pass) |-> pass[i].grade])} :
                /\ quiz' = <<made.quiz>>
                /\ rows' = made.rows
                /\ grading' = <<[raised |-> made.raised, graded |-> made.graded,
                                 pass |-> pass, total |-> Len(rows)]>>
    /\ results' = <<>>
    /\ UNCHANGED <<genai, generation, upload>>
    /\ UNCHANGED verifier_vars
    /\ UNCHANGED generator_vars

\* A student_quiz_results request on the quiz
Results ==
    /\ quiz # <<>>
    /\ served < MaxRequests
    /\ served' = served + 1
    /\ \E statistics \in {quiz_statistics(rows)} :
          \E shown \in {student_quiz_results(statistics, genai, response) :
                            response \in RecommendResponses} :
             results' = <<shown>>
    /\ UNCHANGED <<genai, grading, upload>>
    /\ UNCHANGED quiz_vars
    /\ UNCHANGED verifier_vars
    /\ UNCHANGED generator_vars

Next == Upload \/ Retake \/ Submit \/ Results

Spec == Init /\ [][Next]_vars

\* --------------------------------------------------- a quiz that is graded

\* Questions as the generators store them: a multiple-choice one, a
\* short-answer one the semantic tier is reached for, and a fill-in-blank
\* one.
GradablePool ==
    <<Question(<<"W","h","i","c","h"," ","s","t","r","u","c","t","u","r","e"," ","k","e","e","p","s"," ","i","t","s"," ","o","r","d","e","r","?">>, <<"h","e","a","p">>, "mcq",
               <<<<"h","e","a","p">>, <<"l","i","s","t">>>>, <<"A"," ","h","e","a","p"," ","i","s"," ","a"," ","t","r","e","e",".">>),
      Question(<<"N","a","m","e"," ","t","h","e"," ","t","o","p","i","c",".">>, <<"T","r","e","e"," ","a","l","g","o","r","i","t","h","m","s">>, "short_answer", <<>>,
               <<"A"," ","h","e","a","p"," ","i","s"," ","a"," ","t","r","e","e",".">>),
      Question(<<"A"," ","_","_","_","_","_"," ","i","s"," ","a"," ","t","r","e","e",".">>, <<"h","e","a","p">>, "fill_blank", <<>>,
               <<"A"," ","h","e","a","p"," ","i","s"," ","a"," ","t","r","e","e",".">>)>>

\* The rows of a quiz of at most n questions of the pool, in the order of
\* the pool
GradableRows(n) ==
    UNION {{[i \in 1..k |-> question_row(GradablePool[f[i]], i)] :
               f \in {g \in [1..k -> 1..Len(GradablePool)] :
                         \A i \in 1..(k - 1) : g[i] <= g[i + 1]}} :
           k \in 0..n}

\* The quiz of an upload whose questions are all saved
GeneratedQuiz ==
    [new_quiz(<<"A"," ","h","e","a","p"," ","i","s"," ","a"," ","t","r","e","e"," ","t","h","a","t"," ","k","e","e","p","s"," ","i","t","s"," ","o","r","d","e","r"," ","w","e","l","l",".">>) EXCEPT
        !.questions_generated = TRUE]

\* The quiz is uploaded, and one more request is made on it.
InitGrade ==
    /\ genai \in BOOLEAN
    /\ quiz = <<GeneratedQuiz>>
    /\ rows \in GradableRows(MaxGraded)
    /\ generation = <<>>
    /\ grading = <<>>
    /\ results = <<>>
    /\ upload = <<>>
    /\ served = MaxRequests - 1
    /\ VerifierIdle
    /\ GeneratorIdle

NextGrade == Submit

SpecGrade == InitGrade /\ [][NextGrade]_vars

\* ------------------------------------------- a graded quiz that is reviewed

\* The rows of a graded quiz: n questions of one type, correct of them
\* marked correct, then m questions of another type, right of them marked
\* correct. The others are marked incorrect, or hold the None of a verdict
\* that was null (those of the first type, when unmarked).
ReviewedRows(first, n, correct, m, right, unmarked) ==
    [i \in 1..(n + m) |->
        [question_row(IF i <= n
                      THEN Question(<<"I","s"," ","a"," ","h","e","a","p"," ","a"," ","t","r","e","e","?">>, <<"T","r","u","e">>, first, <<>>,
                                    <<"A"," ","h","e","a","p"," ","i","s"," ","a"," ","t","r","e","e",".">>)
                      ELSE GradablePool[1], i)
         EXCEPT !.student_answer = <<"T","r","u","e">>,
                !.is_correct = IF i <= correct \/ (i > n /\ i <= n + right)
                               THEN PyTrue
                               ELSE IF unmarked /\ i <= n THEN JsonNull
                               ELSE PyFalse]]

\* The quiz is graded, and one more request is made on it.
InitReview ==
    /\ genai \in BOOLEAN
    /\ \E n \in 0..MaxReviewed, first \in {"true_false", "tf"}, unmarked \in BOOLEAN :
          \E m \in 0..(MaxReviewed - n) :
             \E correct \in 0..n, right \in 0..m :
                /\ unmarked => correct < n
                /\ first = "tf" => n > 0 /\ ~unmarked
                /\ rows = ReviewedRows(first, n, correct, m, right, unmarked)
                /\ quiz = <<[GeneratedQuiz EXCEPT
                                !.score = <<correct + right>>,
                                !.percentage = <<percent(correct + right, n + m)>>,
                                !.status = "completed"]>>
    /\ generation = <<>>
    /\ grading = <<>>
    /\ results = <<>>
    /\ upload = <<>>
    /\ served = MaxRequests - 1
    /\ VerifierIdle
    /\ GeneratorIdle

NextReview == Results

SpecReview == InitReview /\ [][NextReview]_vars


\* Upload requests only, as long as none has made a quiz.
NextUpload == Upload

SpecUpload == Init /\ [][NextUpload]_vars

\* PDF files of which the first library raises at a page after it yielded
\* the text of the pages before, few characters of it or more than
\* MIN_PDF_TEXT; the second library is absent, raises at once, raises after
\* a page, or yields its text.
FailingPdfFiles ==
    [ext : {<<".","p","d","f">>},
     fitz : {Extraction("raise", <<"\n","H","e","a","p","s"," ","s","o","r","t",".">>), Extraction("raise", LongText)},
     PyPDF2 : {Extraction("absent", <<>>), Extraction("raise", <<>>),
               Extraction("raise", <<"\n","T","r","e","e","s"," ","g","r","o","w",".">>),
               Extraction("text", <<"\n","T","r","e","e","s"," ","g","r","o","w",".">>)},
     Presentation : {Extraction("absent", <<>>)}]

\* A file is at hand: upload holds it and, once process_uploaded_file was
\* called on it, the text returned.
InitExtract ==
    /\ genai \in {FALSE}
    /\ \E file \in UploadedFiles \cup FailingPdfFiles :
          upload = <<[file |-> file, called |-> FALSE, text |-> <<>>]>>
    /\ NoQuiz
    /\ grading = <<>>
    /\ results = <<>>
    /\ served = 0
    /\ VerifierIdle
    /\ GeneratorIdle

\* One call of process_uploaded_file on the file
Extract ==
    /\ ~upload[1].called
    /\ upload' = <<[upload[1] EXCEPT
                       !.called = TRUE,
                       !.text = process_uploaded_file(upload[1].file.ext,
                                                      upload[1].file.fitz,
                                                      upload[1].file.PyPDF2,
                                                      upload[1].file.Presentation)]>>
    /\ UNCHANGED <<genai, grading, results, served>>
    /\ UNCHANGED quiz_vars
    /\ UNCHANGED verifier_vars
    /\ UNCHANGED generator_vars

NextExtract == Extract

SpecExtract == InitExtract /\ [][NextExtract]_vars

\* ------------------------------------- a submit and a retake, interleaved

\* Two requests on one quiz, each served by its own worker: the statements
\* of student_submit_quiz and of student_retake_quiz that read or write the
\* database are steps of their own, and the steps of the two requests
\* interleave. While a request is under way, grading holds the state of the
\* submit (the instances its loop iterates over, the index of the next one,
\* the score so far, the count read, and whether the rows it loaded were
\* deleted since), and generation that of the retake (the questions
\* generated and the index of the next to create).

\* The question lists generate_questions_from_text returns to the retake
Regenerated ==
    {<<GradablePool[3], GradablePool[2]>>, <<GradablePool[2], GradablePool[1]>>}

\* The table has a row at the position
has_position(table, question_number) ==
    \E k \in 1..Len(table) : table[k].question_number = question_number

\* The table with one more row, in the order of Meta.ordering
\* (models.py:246-247)
inserted(table, row) ==
    SelectSeq(table, LAMBDA r : r.question_number < row.question_number)
        \o <<row>>
        \o SelectSeq(table, LAMBDA r : r.question_number > row.question_number)

\* views.py:730 and 740, question.save() on an instance the loop loaded.
\* Model.save() updates the row of the instance's primary key, all columns
\* of it, and inserts the instance when the update matched no row; the
\* insert raises IntegrityError on unique_together (models.py:248). The
\* rows of a quiz that were deleted are matched by no later row (primary
\* keys are not given again).
model_save(table, instance, deleted) ==
    IF ~deleted
    THEN [rows |-> [k \in 1..Len(table) |->
                       IF table[k].question_number = instance.question_number
                       THEN instance ELSE table[k]],
          raised |-> FALSE]
    ELSE IF has_position(table, instance.question_number)
    THEN [rows |-> table, raised |-> TRUE]
    ELSE [rows |-> inserted(table, instance), raised |-> FALSE]

\* views.py:701-713: a POST reads the quiz, counts its questions and, at the
\* first turn of the loop, loads them.
SubmitLoad ==
    /\ quiz # <<>>
    /\ grading = <<>>
    /\ served < MaxRequests
    /\ served' = served + 1
    /\ grading' = <<[questions |-> rows, i |-> 1, score |-> 0,
                     total |-> Len(rows), deleted |-> FALSE]>>
    /\ UNCHANGED <<genai, results, upload>>
    /\ UNCHANGED quiz_vars
    /\ UNCHANGED verifier_vars
    /\ UNCHANGED generator_vars

\* views.py:713-741, one turn of the loop: the answer posted for the
\* question is verified and the instance saved. An exception of save()
\* ends the request.
SubmitSave ==
    /\ grading # <<>>
    /\ grading[1].i <= Len(grading[1].questions)
    /\ \E posted \in PostedAnswers(grading[1].questions[grading[1].i]),
          response \in GradingResponses :
          \E graded \in {grade_question(grading[1].questions[grading[1].i], posted,
                                        quiz[1].extracted_text, genai, response)} :
             \E instance \in {[grading[1].questions[grading[1].i] EXCEPT
                                  !.student_answer = IF graded.answered
                                                     THEN graded.student_answer ELSE @,
                                  !.is_correct = graded.is_correct]} :
                \E saved \in {model_save(rows, instance, grading[1].deleted)} :
                   IF ~boolean_field_accepts(graded.is_correct) \/ saved.raised
                   THEN /\ grading' = <<>>
                        /\ UNCHANGED rows
                   ELSE /\ rows' = saved.rows
                        /\ grading' =
                              <<[grading[1] EXCEPT
                                    !.i = @ + 1,
                                    !.score = IF graded.is_correct = PyTrue
                                              THEN @ + 1 ELSE @]>>
    /\ UNCHANGED <<genai, quiz, generation, results, upload, served>>
    /\ UNCHANGED verifier_vars
    /\ UNCHANGED generator_vars

\* views.py:743-756: the loop is over; score, percentage and status are
\* saved.
SubmitFinish ==
    /\ grading # <<>>
    /\ grading[1].i > Len(grading[1].questions)
    /\ quiz' = <<[quiz[1] EXCEPT
                     !.score = <<grading[1].score>>,
                     !.percentage = <<percent(grading[1].score, grading[1].total)>>,
                     !.status = "completed"]>>
    /\ grading' = <<>>
    /\ UNCHANGED <<genai, rows, generation, results, upload, served>>
    /\ UNCHANGED verifier_vars
    /\ UNCHANGED generator_vars

\* views.py:526-541: the questions of the quiz are deleted and new ones
\* generated; the rows a submit under way has loaded are gone.
RetakeDelete ==
    /\ quiz # <<>>
    /\ generation = <<>>
    /\ served < MaxRequests
    /\ served' = served + 1
    /\ rows' = <<>>
    /\ \E questions \in Regenerated :
          generation' = <<[questions |-> questions, idx |-> 1]>>
    /\ grading' = IF grading = <<>> THEN grading
                  ELSE <<[grading[1] EXCEPT !.deleted = TRUE]>>
    /\ UNCHANGED <<genai, quiz, results, upload>>
    /\ UNCHANGED verifier_vars
    /\ UNCHANGED generator_vars

\* views.py:546-558, one turn of the loop: QuizQuestion.objects.create. On
\* the IntegrityError of a position that is taken, the except clause of
\* line 571 ends the request.
RetakeCreate ==
    /\ generation # <<>>
    /\ generation[1].idx <= Len(generation[1].questions)
    /\ IF has_position(rows, generation[1].idx)
       THEN /\ generation' = <<>>
            /\ UNCHANGED rows
       ELSE /\ rows' = inserted(rows,
                                question_row(generation[1].questions[generation[1].idx],
                                             generation[1].idx))
            /\ generation' = <<[generation[1] EXCEPT !.idx = @ + 1]>>
    /\ UNCHANGED <<genai, quiz, grading, results, upload, served>>
    /\ UNCHANGED verifier_vars
    /\ UNCHANGED generator_vars

\* views.py:560-569: the score of the quiz is reset.
RetakeFinish ==
    /\ generation # <<>>
    /\ generation[1].idx > Len(generation[1].questions)
    /\ quiz' = <<[quiz[1] EXCEPT !.score = <<>>]>>
    /\ generation' = <<>>
    /\ UNCHANGED <<genai, rows, grading, results, upload, served>>
    /\ UNCHANGED verifier_vars
    /\ UNCHANGED generator_vars

\* The quiz is uploaded with two questions, and two requests are made on it.
InitInterleave ==
    /\ genai \in BOOLEAN
    /\ quiz = <<GeneratedQuiz>>
    /\ rows \in {table \in GradableRows(2) : Len(table) = 2}
    /\ generation = <<>>
    /\ grading = <<>>
    /\ results = <<>>
    /\ upload = <<>>
    /\ served = MaxRequests - 2
    /\ VerifierIdle
    /\ GeneratorIdle

NextInterleave ==
    \/ SubmitLoad
    \/ SubmitSave
    \/ SubmitFinish
    \/ RetakeDelete
    \/ RetakeCreate
    \/ RetakeFinish

SpecInterleave == InitInterleave /\ [][NextInterleave]_vars
\* ------------------------------------------------ claims on the generators

\* The positions of the rows of the quiz
Positions == {rows[i].question_number : i \in 1..Len(rows)}

\* C1, as the specification states it: whatever the service does, a
\* generation of questions, by the upload or by a retake, from a text that
\* is not empty leaves the quiz with exactly N questions, at the positions
\* 1..N, no two at one position.
C1_ExactlyNPersisted ==
    Len(generation) = 1 =>
        /\ Len(rows) = default_max_questions
        /\ Positions = 1..default_max_questions
        /\ Cardinality(Positions) = Len(rows)

\* C2: for a text that is not empty and any number N asked for,
\* generate_basic_questions returns exactly N questions, each with a prompt
\* that is not empty and a type that is not null, however many sentences of
\* the text are fit for a question and whether or not create_fill_blank
\* makes something of them.
C2_BasicExactlyN ==
    (Len(gbasic) = 1 /\ gtext # <<>>) =>
        LET questions == gbasic[1].questions
        IN /\ Len(questions) = gmax
           /\ \A i \in 1..Len(questions) :
                 /\ questions[i].question_text \notin {<<>>, PyNone, NoKey}
                 /\ questions[i].question_type \in QuestionTypes

\* C2 witness: the second of two fit sentences has no word to blank, and
\* the placeholder question fills its place.
C2_Witness ==
    /\ Len(gbasic) = 1
    /\ gmax = MaxQuestions
    /\ Len(good_sentences(gtext)) = 2
    /\ Len(gbasic[1].questions) = gmax
    /\ gbasic[1].questions[1].question_type = "mcq"
    /\ gbasic[1].questions[2] = generic_question(2)

\* C3: when the service is not configured, or the one call of it raises, or
\* its response is no JSON, generate_questions_from_text returns what
\* generate_basic_questions returns for the same text and N, calls the
\* service no second time and lets no exception out.
C3_FallsBackToBasic ==
    (/\ Len(gres) = 1
     /\ gtext # <<>>
     /\ gsvc[1] \in {"not called", "raise", "not_json"}) =>
        /\ gres[1].basic_call = <<[text |-> gtext, max_questions |-> gmax]>>
        /\ Len(gdraw) = 1
        /\ gres[1].questions =
               generate_basic_questions(gtext, gmax, gdraw[1].shuffled,
                                        gdraw[1].picks)
        /\ ~gres[1].raised
        /\ gres[1].calls <= 1
        /\ gres[1].calls = 0 <=> ~genai

\* C3 witness: the call of the service raised, and the questions made of
\* the sentences of the text are returned.
C3_Witness ==
    /\ Len(gres) = 1
    /\ genai
    /\ gsvc[1] = "raise"
    /\ gres[1].calls = 1
    /\ gmax = MaxQuestions
    /\ Len(gres[1].questions) = gmax
    /\ gres[1].questions[1].question_type = "mcq"

\* ------------------------------------------------ claims on the verifier

\* The words of the claims, stated apart from the code's helpers.
AllWhitespace(s) == \A i \in 1..Len(s) : s[i] \in Whitespace
\* lowercase, punctuation removed, trimmed
Normalized(s) == strip(SelectSeq(lower(s), LAMBDA c : c \notin Punctuation))
\* the tokens of s longer than n characters
TokensLongerThan(s, n) == {w \in Range(split(s)) : Len(w) > n}
\* the calls made so far, direct ones and the one of the grading loop
Outcomes == Range(vres) \cup Range(vgraded)
SubmittedRight(o) == o.is_correct = PyTrue

\* C4: an empty or whitespace-only submitted answer is graded incorrect with
\* the reason "No answer provided" and without a call of the service, for a
\* question of any type, by the verifier and by the grading loop alike.
C4_BlankAnswerIncorrect ==
    AllWhitespace(vans) =>
        \A o \in Outcomes :
            /\ o.is_correct = PyFalse
            /\ o.reason = "No answer provided"
            /\ o.calls = 0

C4_Witness ==
    /\ vans # <<>> /\ AllWhitespace(vans)
    /\ vq.question_type = "short_answer" /\ genai /\ vpdf # <<>>
    /\ Len(vres) = 2

\* C5 as claimed: a multiple-choice answer is correct iff the submitted string is
\* byte-identical to the expected one.
C5_ByteIdentical ==
    vq.question_type = "mcq" =>
        \A o \in Outcomes : SubmittedRight(o) <=> vans = vq.correct_answer

\* C5 amended: a multiple-choice answer is correct iff it is not blank and
\* equals the expected answer, case-sensitively, once the whitespace around
\* both is trimmed.
C5_McqTrimmedExact ==
    vq.question_type = "mcq" =>
        \A o \in Outcomes :
            SubmittedRight(o) <=>
                /\ ~AllWhitespace(vans)
                /\ strip(vans) = strip(vq.correct_answer)

C5_Witness ==
    /\ vq.question_type = "mcq"
    /\ Len(vres) > 0 /\ SubmittedRight(vres[1])
    /\ vans # vq.correct_answer

\* C6 as claimed: a true/false answer is correct iff the submitted answer
\* equals the expected one ignoring letter case.
C6_EqualIgnoringCase ==
    vq.question_type \in {"true_false", "tf"} =>
        \A o \in Outcomes :
            SubmittedRight(o) <=> lower(vans) = lower(vq.correct_answer)

\* C6 amended: a true/false answer is correct iff it is not blank and equals
\* the expected answer ignoring letter case once the whitespace around both
\* is trimmed.
C6_TrueFalseTrimmedIgnoringCase ==
    vq.question_type \in {"true_false", "tf"} =>
        \A o \in Outcomes :
            SubmittedRight(o) <=>
                /\ ~AllWhitespace(vans)
                /\ lower(strip(vans)) = lower(strip(vq.correct_answer))

C6_Witness ==
    /\ vq.question_type = "true_false"
    /\ Len(vres) > 0 /\ SubmittedRight(vres[1])
    /\ strip(vans) # strip(vq.correct_answer)

\* C7 as claimed: a fill-in-blank or short-answer submission equal to the
\* expected answer after normalization is correct, with no service call.
C7_NormalizedEqualCorrect ==
    (/\ vq.question_type \in {"fill_blank", "short_answer"}
     /\ Normalized(vans) = Normalized(vq.correct_answer)) =>
        \A o \in Outcomes : SubmittedRight(o) /\ o.calls = 0

\* C7 amended: a fill-in-blank or short-answer submission that is not blank
\* and equals the expected answer after normalization is correct, with no
\* service call.
C7_NonBlankNormalizedEqualCorrect ==
    (/\ vq.question_type \in {"fill_blank", "short_answer"}
     /\ ~AllWhitespace(vans)
     /\ Normalized(vans) = Normalized(vq.correct_answer)) =>
        \A o \in Outcomes : SubmittedRight(o) /\ o.calls = 0

C7_Witness ==
    /\ vq.question_type = "fill_blank" /\ genai /\ vpdf # <<>>
    /\ Normalized(vans) = Normalized(vq.correct_answer)
    /\ vans # vq.correct_answer /\ lower(vans) # lower(vq.correct_answer)
    /\ Len(vres) > 0 /\ SubmittedRight(vres[1])

\* C8: a fill-in-blank submission whose normalized form neither contains nor
\* is contained in the expected one, and which shares no word longer than 2
\* characters with it, is incorrect, and the service is not called, whether
\* it is configured or not.
C8_NoOverlapIncorrectNoCall ==
    (/\ vq.question_type = "fill_blank"
     /\ ~contains(Normalized(vans), Normalized(vq.correct_answer))
     /\ ~contains(Normalized(vq.correct_answer), Normalized(vans))
     /\ TokensLongerThan(Normalized(vans), 2)
            \cap TokensLongerThan(Normalized(vq.correct_answer), 2) = {}) =>
        \A o \in Outcomes : o.is_correct = PyFalse /\ o.calls = 0

C8_Witness ==
    /\ vq.question_type = "fill_blank" /\ genai /\ vpdf # <<>>
    /\ ~contains(Normalized(vans), Normalized(vq.correct_answer))
    /\ ~contains(Normalized(vq.correct_answer), Normalized(vans))
    /\ TokensLongerThan(Normalized(vq.correct_answer), 2) # {}
    /\ TokensLongerThan(Normalized(vans), 2) # {}
    /\ TokensLongerThan(Normalized(vans), 2)
           \cap TokensLongerThan(Normalized(vq.correct_answer), 2) = {}
    /\ Len(vres) > 0 /\ vres[1].is_correct = PyFalse

\* The keywords of the short-answer fallback: the tokens longer than 3
\* characters, compared in lowercase.
Keywords(s) == {lower(w) : w \in TokensLongerThan(s, 3)}
\* The i-th direct call obtained no semantic verdict.
NoVerdict(i) == vsvc[i] \in {"not called", "raise", "not_json", "not_object"}
KeywordRatioAtLeast40 ==
    100 * Cardinality(Keywords(vq.correct_answer) \cap Keywords(vans))
        >= 40 * Cardinality(Keywords(vq.correct_answer))

VerdictOf(o) == <<o.is_correct, o.reason, o.pct>>

Booleans == {PyTrue, PyFalse}

\* C11, as the specification states it: whatever the question type, the
\* submitted answer and the response of the service, the first value
\* verify_answer_with_content returns is True or False.
C11_DefiniteBoolean ==
    \A i \in 1..Len(vres) : vres[i].is_correct \in Booleans

\* ------------------------------------------------- claims on a grading pass

\* The last request was a grading request that reached the loop
PassMade == Len(grading) = 1 /\ grading[1].graded
\* and no exception left it
PassCompleted == PassMade /\ ~grading[1].raised
\* The semantic-verification call made for question i failed: it raised,
\* its text was no JSON, or the correctness it gave was no boolean
CallFailed(i) ==
    \/ grading[1].pass[i].service \in {"raise", "not_json"}
    \/ /\ grading[1].pass[i].service = "object"
       /\ grading[1].pass[i].verdict \notin Booleans
\* What the deterministic tier after the semantic one makes of the answer
\* to question i
NextTier(i) ==
    IF rows[i].question_type = "short_answer"
    THEN keyword_fallback(strip(rows[i].correct_answer),
                          grading[1].pass[i].grade.student_answer, 1)
    ELSE default_matching(strip(rows[i].correct_answer),
                          grading[1].pass[i].grade.student_answer, 1)

\* C12, as the specification states it: in a grading pass, a failure of the
\* semantic-verification call for a question leaves the verdict to the next
\* deterministic tier, and the pass still completes: no exception leaves
\* it, every question holds a verdict that is True or False, and the score
\* of the quiz is stored.
C12_FailureFallsThrough ==
    PassMade =>
        /\ \A i \in 1..Len(rows) :
              CallFailed(i) =>
                 /\ grading[1].pass[i].grade.is_correct = NextTier(i).is_correct
                 /\ grading[1].pass[i].grade.reason = NextTier(i).reason
        /\ ~grading[1].raised
        /\ \A i \in 1..Len(rows) : rows[i].is_correct \in Booleans
        /\ quiz[1].score # <<>>
        /\ quiz[1].status = "completed"

\* floor(x * 2^20) of a float x below 2^11
Scaled(x) ==
    LET RECURSIVE Value(_, _)
        Value(bits, i) == IF i > 20 THEN 0
                          ELSE (IF i <= Len(bits) THEN bits[i] ELSE 0) * 2^(20 - i)
                                   + Value(bits, i + 1)
    IN x.whole * 2^20 + Value(x.frac, 1)
\* x is n / d to less than one part in 100000: |x - n / d| < 3 / 2^20
Near(x, n, d) ==
    /\ Scaled(x) * d <= n * 2^20 + 2 * d
    /\ Scaled(x) * d >= n * 2^20 - 2 * d
\* x is n / d exactly (0 < d): its whole part is that of n / d, and its
\* digits after the point are those of the remainder over d, which end
Exactly(x, n, d) ==
    /\ x.whole = n \div d
    /\ binary_digits(n % d, d, Len(x.frac), <<>>) = [bits |-> x.frac, rem |-> 0]
\* The questions the pass marked correct
MarkedCorrect == {i \in 1..Len(rows) : rows[i].is_correct = PyTrue}

Blank == {i \in 1..Len(rows) : ~grading[1].pass[i].grade.answered}

\* C15, as the specification states it: in any grading pass, every question
\* whose submitted answer is blank ends the pass marked incorrect, and the
\* score the pass results in is at most the number of questions that
\* received a non-blank answer.
C15_BlankMarkedIncorrect ==
    PassMade =>
        /\ \A i \in Blank : rows[i].is_correct = PyFalse
        /\ \A i \in 1..Len(quiz[1].score) :
              quiz[1].score[i] <= Len(rows) - Cardinality(Blank)

\* --------------------------------------------------- claims on the results

\* The label the results page gives a question type
AreaLabel ==
    [mcq |-> <<"M","c","q">>, tf |-> <<"T","f">>, true_false |-> <<"T","r","u","e"," ","F","a","l","s","e">>,
     fill_blank |-> <<"F","i","l","l"," ","B","l","a","n","k">>, short_answer |-> <<"S","h","o","r","t"," ","A","n","s","w","e","r">>]
\* The questions of a type, and those of them marked correct
InType(qtype) == {i \in 1..Len(rows) : rows[i].question_type = qtype}
CorrectInType(qtype) == {i \in InType(qtype) : rows[i].is_correct = PyTrue}
NoRepeat(s) == \A i, j \in 1..Len(s) : s[i] = s[j] => i = j

\* C14: in the results computation a question type is listed as weak if and
\* only if it appears at least once in the quiz and its accuracy
\* (correct-in-type / total-in-type) is below 60%, and as strong if and only
\* if it appears at least once and its accuracy is at least 80%; no type is
\* both, and a type with accuracy in [60%, 80%) is neither.
C14_WeakBelow60StrongFrom80 ==
    results # <<>> =>
        LET weak == results[1].statistics.weak_areas
            strong == results[1].statistics.strong_areas
        IN /\ NoRepeat(weak) /\ NoRepeat(strong)
           /\ Range(weak) \cap Range(strong) = {}
           /\ Range(weak) \cup Range(strong) \subseteq {AreaLabel[qtype] : qtype \in DOMAIN AreaLabel}
           /\ \A qtype \in DOMAIN AreaLabel :
                 LET total == Cardinality(InType(qtype))
                     correct == Cardinality(CorrectInType(qtype))
                 IN /\ AreaLabel[qtype] \in Range(weak)
                          <=> total > 0 /\ 100 * correct < 60 * total
                    /\ AreaLabel[qtype] \in Range(strong)
                          <=> total > 0 /\ 100 * correct >= 80 * total

C14_Witness ==
    /\ results # <<>>
    /\ \E qtype \in {"tf", "true_false"} :
          /\ Cardinality(InType(qtype)) = 5
          /\ Cardinality(CorrectInType(qtype)) = 3
          /\ AreaLabel[qtype] \notin Range(results[1].statistics.weak_areas)
          /\ AreaLabel[qtype] \notin Range(results[1].statistics.strong_areas)
    /\ Cardinality(InType("mcq")) = 5
    /\ Cardinality(CorrectInType("mcq")) = 4
    /\ results[1].statistics.strong_areas = <<AreaLabel["mcq"]>>

\* The recommendations were asked for and the service failed: it is not
\* configured, its call raised, its text was no JSON or no JSON object, or
\* the "recommendations" of the object are no list, or one of the first
\* three of them is no object
ServiceFailed ==
    /\ results[1].asked
    /\ \/ ~genai
       \/ results[1].service \in {"raise", "not_json", "not_object"}
       \/ results[1].shape \in {"null", "str"}
       \/ \E i \in 1..Len(results[1].sent) :
             i <= MAX_RECOMMENDATIONS /\ ~results[1].sent[i].dict
\* The quiz has a weak area and its percentage is below 90
WeakAndBelow90 ==
    /\ \E qtype \in DOMAIN AreaLabel :
          /\ InType(qtype) # {}
          /\ 100 * Cardinality(CorrectInType(qtype)) < 60 * Cardinality(InType(qtype))
    /\ 100 * Cardinality({i \in 1..Len(rows) : rows[i].is_correct = PyTrue})
          < 90 * Len(rows)

\* C20, as the specification states it: study recommendations are requested
\* from the service only when a weak area exists and the percentage is
\* below 90; at most 3 are returned; and any failure of the service
\* (absent, raising, unparseable or ill-shaped response) yields an empty
\* list of recommendations, the results being produced without error.
C20_RecommendationsDegrade ==
    results # <<>> =>
        /\ results[1].calls > 0 => WeakAndBelow90
        /\ Len(results[1].recommendations) <= 3
        /\ ~results[1].raised
        /\ ServiceFailed => results[1].recommendations = <<>>

\* ------------------------------------------- claims on the life of a quiz

\* The quiz is completed before and after the step
StaysCompleted ==
    /\ quiz # <<>> /\ quiz[1].status = "completed"
    /\ quiz' # <<>> /\ quiz'[1].status = "completed"

\* C16, as the specification states it: once the status of a quiz is
\* completed, no submit, retake or results request on it changes its score
\* or its percentage while the status is completed.
C16_CompletedScoreImmutable ==
    [][StaysCompleted =>
          /\ quiz'[1].score = quiz[1].score
          /\ quiz'[1].percentage = quiz[1].percentage]_vars

\* C17, as the specification states it: regeneration replaces the question
\* set of a quiz atomically: whatever the regeneration does, a failure
\* partway included, the questions read after it are the complete old set
\* or a complete new set of N questions, never an empty or partial set.
C17_RegenerationAtomic ==
    [][Retake =>
          \/ rows' = rows
          \/ /\ ~generation'[1].raised
             /\ Len(rows') = default_max_questions
             /\ {rows'[i].question_number : i \in 1..Len(rows')}
                   = 1..default_max_questions]_vars

\* The last upload request carried a file that a logged-in student posted,
\* and the extraction made this of it
Extraction1 == upload[1].extracted[1]
FilePosted == Len(upload) = 1 /\ Len(upload[1].extracted) = 1

\* C18: when the extraction yields empty text, the upload creates no quiz
\* and no question, reports the extraction error to the user and does not
\* invoke the generation; the text is empty whenever the extension is none
\* of .pdf, .ppt and .pptx or no library for the extension is installed.
C18_EmptyExtractionCreatesNothing ==
    FilePosted =>
        /\ Extraction1.text = <<>> =>
              /\ quiz = <<>>
              /\ rows = <<>>
              /\ generation = <<>>
              /\ ~upload[1].generated
              /\ upload[1].message = "Could not extract text from file."
        /\ Extraction1.ext \notin {<<".","p","d","f">>, <<".","p","p","t">>, <<".","p","p","t","x">>} => Extraction1.text = <<>>
        /\ ~Extraction1.capable => Extraction1.text = <<>>

C18_Witness ==
    /\ FilePosted
    /\ Extraction1.ext = <<".","p","d","f">>
    /\ ~Extraction1.capable
    /\ Extraction1.text = <<>>
    /\ upload[1].message = "Could not extract text from file."
    /\ quiz = <<>>
    /\ served = MaxRequests

\* C19, as the specification states it: a quiz starts pending, and its
\* status only moves from pending to in_progress and from in_progress to
\* completed: it reaches completed only through in_progress and never
\* moves backward.
C19_StatusTransitions ==
    [][/\ quiz = <<>> /\ quiz' # <<>> => quiz'[1].status = "pending"
       /\ quiz # <<>> /\ quiz' # <<>> /\ quiz'[1].status # quiz[1].status =>
             <<quiz[1].status, quiz'[1].status>>
                \in {<<"pending", "in_progress">>, <<"in_progress", "completed">>}]_vars

\* ------------------------------------------- claims on the order of tiers

\* The words longer than 2 characters of a normalized answer
Words(s) == TokensLongerThan(Normalized(s), 2)
CommonWords == Words(vq.correct_answer) \cap Words(vans)
\* Neither normalized answer contains the other
NeitherContains ==
    /\ ~contains(Normalized(vans), Normalized(vq.correct_answer))
    /\ ~contains(Normalized(vq.correct_answer), Normalized(vans))
\* Every deterministic tier before the semantic one left the answer
\* undecided: it is not blank, the normalized answers differ, and for a
\* fill-in-blank question the expected answer has a word, neither answer
\* contains the other, and the overlap is not empty and below 0.8
TiersInconclusive ==
    /\ ~AllWhitespace(vans)
    /\ Normalized(vans) # Normalized(vq.correct_answer)
    /\ vq.question_type = "fill_blank" =>
          /\ Words(vq.correct_answer) # {}
          /\ NeitherContains
          /\ CommonWords # {}
          /\ 100 * Cardinality(CommonWords) < 80 * Cardinality(Words(vq.correct_answer))

\* C21: within one verify call the service is invoked at most once, and
\* only for a fill-in-blank or short-answer question after the empty
\* check, the normalized exact match and the fill-in-blank substring and
\* overlap checks have all been inconclusive; multiple-choice, true/false
\* and unclassified questions never invoke it.
C21_ServiceOnlyAfterTiers ==
    \A o \in Outcomes :
        /\ o.calls \in {0, 1}
        /\ o.calls = 1 =>
              /\ vq.question_type \in {"fill_blank", "short_answer"}
              /\ TiersInconclusive
        /\ vq.question_type \in {"mcq", "true_false", "tf", "text"} => o.calls = 0

C21_Witness ==
    /\ vq.question_type = "fill_blank"
    /\ TiersInconclusive
    /\ Len(vres) = 2
    /\ vres[1].calls = 1 /\ vres[2].calls = 1
    /\ vsvc[1] = "object" /\ vsvc[2] = "raise"

\* C22: for a fill-in-blank question whose normalized answers differ and
\* where neither contains the other, the answer is correct, without a call
\* of the service, whenever the words common to both are at least 0.8 of
\* the expected words (words being the tokens longer than 2 characters)
\* and there is a common word.
C22_HighOverlapCorrectNoCall ==
    (/\ vq.question_type = "fill_blank"
     /\ Normalized(vans) # Normalized(vq.correct_answer)
     /\ NeitherContains
     /\ CommonWords # {}
     /\ 100 * Cardinality(CommonWords) >= 80 * Cardinality(Words(vq.correct_answer))) =>
        \A o \in Outcomes : SubmittedRight(o) /\ o.calls = 0

C22_Witness ==
    /\ vq.question_type = "fill_blank" /\ genai /\ vpdf # <<>>
    /\ Normalized(vans) # Normalized(vq.correct_answer)
    /\ NeitherContains
    /\ Cardinality(CommonWords) = 2
    /\ Cardinality(Words(vq.correct_answer)) = 2
    /\ Len(vres) > 0 /\ SubmittedRight(vres[1]) /\ vres[1].calls = 0
    /\ Len(vgraded) = 0

\* C29: a fill-in-blank answer that every deterministic tier leaves
\* undecided (normalized answers differ, neither contains the other, the
\* overlap not empty and below 0.8) and that obtains no semantic verdict
\* (service absent, no reference text, or a failed call) is incorrect: the
\* final substring match does not succeed.
C29_UnresolvedFillBlankIncorrect ==
    (/\ vq.question_type = "fill_blank"
     /\ TiersInconclusive) =>
        /\ \A i \in 1..Len(vres) :
              NoVerdict(i) =>
                 /\ vres[i].is_correct = PyFalse
                 /\ vres[i].reason = "Default matching"
        /\ \A i \in 1..Len(vgraded) :
              vgraded[i].calls = 0 => vgraded[i].is_correct = PyFalse

C29_Witness ==
    /\ vq.question_type = "fill_blank"
    /\ TiersInconclusive
    /\ Len(vres) = 2
    /\ vsvc[1] = "raise" /\ vsvc[2] = "not_json"
    /\ vres[1].reason = "Default matching" /\ vres[2].reason = "Default matching"

\* C30, as the specification states it: for a fill-in-blank question whose
\* expected answer has a non-empty normalized form, a submission that is
\* not blank and normalizes to the empty string (punctuation only) is
\* incorrect.
C30_PunctuationOnlyIncorrect ==
    (/\ vq.question_type = "fill_blank"
     /\ Normalized(vq.correct_answer) # <<>>
     /\ ~AllWhitespace(vans)
     /\ Normalized(vans) = <<>>) =>
        \A o \in Outcomes : o.is_correct = PyFalse

\* ------------------------------------------ claims on the question records

\* The question records the calls of the generators returned
Produced ==
    UNION {Range(gbasic[i].questions) : i \in 1..Len(gbasic)}
        \cup UNION {Range(gres[i].questions) : i \in 1..Len(gres)}
\* The record holds a list of options that is not empty
HasOptions(q) == q.options \notin {<<>>, PyNone, NoOptions}

\* C23, as the specification states it: every question record a generator
\* produces has an option set that is not empty only if its type is
\* multiple-choice; true/false, fill-in-blank and short-answer questions
\* have an empty option set.
C23_OptionsOnlyForMcq ==
    \A q \in Produced : HasOptions(q) => q.question_type = "mcq"

\* The blank marker of a fill-in-blank prompt
BlankMarker == <<"_","_","_","_","_">>
\* The token without its punctuation
Unpunctuated(token) == SelectSeq(token, LAMBDA c : c \notin Punctuation)
\* The positions of the content words of a sentence: the tokens of more
\* than 5 characters, letters and digits and not digits only, the
\* punctuation aside, that are neither the first nor the last token
ContentWords(sentence) ==
    {i \in 2..(Len(split(sentence)) - 1) :
        LET word == Unpunctuated(split(sentence)[i])
        IN /\ Len(word) > 5
           /\ \A k \in 1..Len(word) : word[k] \in AlnumChars
           /\ \E k \in 1..Len(word) : word[k] \notin DigitChars}
\* The sentence with the marker in place of its i-th token
Blanked(sentence, i) ==
    join(<<" ">>, [k \in 1..Len(split(sentence)) |->
                      IF k = i THEN BlankMarker ELSE split(sentence)[k]])
\* The sentences of the text in the order of the shuffle
ShuffledSentences ==
    [k \in 1..Len(gdraw[1].shuffled) |-> good_sentences(gtext)[gdraw[1].shuffled[k]]]

\* C24, as the specification states it: every fill-in-blank question of
\* generate_basic_questions has a prompt that contains the blank marker in
\* place of the chosen word, and an expected answer that is a content word
\* of the source sentence; a sentence with no content word gives no
\* question for its slot.
C24_FillBlankFromContentWord ==
    Len(gbasic) = 1 =>
        /\ \A q \in Range(gbasic[1].questions) :
              q.question_type = "fill_blank" =>
                 /\ contains(BlankMarker, q.question_text)
                 /\ \E sentence \in Range(good_sentences(gtext)) :
                       \E i \in ContentWords(sentence) :
                          /\ q.correct_answer = Unpunctuated(split(sentence)[i])
                          /\ \/ q.question_text = Blanked(sentence, i)
                             \/ /\ Len(Blanked(sentence, i)) > 200
                                /\ q.question_text
                                      = SubSeq(Blanked(sentence, i), 1, 200) \o <<".",".",".">>
        /\ (/\ Len(ShuffledSentences) >= 2
            /\ gmax >= 2
            /\ ContentWords(ShuffledSentences[2]) = {}) =>
              \A q \in Range(gbasic[1].questions) : q.question_type # "fill_blank"

\* ------------------------------------------------ claims on the extraction

\* process_uploaded_file was called on a PDF file
PdfExtracted ==
    /\ Len(upload) = 1
    /\ upload[1].called
    /\ lower(upload[1].file.ext) = <<".","p","d","f">>

\* C25, as the specification states it: when the first library of the PDF
\* path raises, at whatever page, it counts as having given no text: the
\* text process_pdf returns is what the second library extracted, and is
\* empty when that library is absent or fails too.
C25_FailedLibraryGivesNoText ==
    (PdfExtracted /\ upload[1].file.fitz.kind = "raise") =>
        upload[1].text = IF upload[1].file.PyPDF2.kind = "text"
                         THEN clean_text(upload[1].file.PyPDF2.text)
                         ELSE <<>>

\* ------------------------------------- claims on what the grading writes

\* A step of a grading request
GradingStep == SubmitLoad \/ SubmitSave \/ SubmitFinish

\* The columns of a question that the grading does not write
Identity(row) ==
    [question_number |-> row.question_number,
     question_type |-> row.question_type,
     question_text |-> row.question_text,
     correct_answer |-> row.correct_answer]

\* C26, as the specification states it: whatever the interleaving of a
\* submit with a retake on the same quiz, no step of the grading creates,
\* deletes or renumbers a question or changes a question's type, prompt or
\* expected answer, and no two questions of the quiz hold one position.
C26_GradingWritesAnswersOnly ==
    [][/\ GradingStep =>
             /\ Len(rows') = Len(rows)
             /\ \A k \in 1..Len(rows) : Identity(rows'[k]) = Identity(rows[k])
       /\ \A k, m \in 1..Len(rows') :
             rows'[k].question_number = rows'[m].question_number => k = m]_vars

\* How many questions of the quiz are marked correct
MarkedCorrectNow ==
    Cardinality({k \in 1..Len(rows) : rows[k].is_correct = PyTrue})

\* C27, as the specification states it: in every state reached by upload,
\* submit and retake requests, a quiz whose status is completed has a score
\* that is not null and equals the number of its questions marked correct,
\* and none of its questions has a null correctness.
C27_CompletedQuizIsGraded ==
    (quiz # <<>> /\ quiz[1].status = "completed") =>
        /\ quiz[1].score = <<MarkedCorrectNow>>
        /\ \A k \in 1..Len(rows) : rows[k].is_correct # JsonNull

\* A grading pass ran to its end in the step: the request served is a
\* submit, which alone records a grading and clears the results shown.
PassRan ==
    /\ served' = served + 1
    /\ results' = <<>>
    /\ grading' # <<>>
    /\ grading'[1].graded
    /\ ~grading'[1].raised

\* C28, as the specification states it: after a grading pass, the stored
\* submitted answer of every question is the answer submitted for it in
\* that pass, and a question left blank in the pass has none, whatever an
\* earlier pass stored for it.
C28_StoredAnswerIsOfThePass ==
    [][PassRan =>
          \A k \in 1..Len(rows') :
             rows'[k].student_answer =
                IF grading'[1].pass[k].grade.answered
                THEN grading'[1].pass[k].grade.student_answer
                ELSE PyNone]_vars

====
